---- MODULE Spec2Model ----
(***************************************************************************)
(* The consultation state machine and the pricing / discount engine of     *)
(* ProLinkHub (app/routers/consultation.py, app/routers/hvac_categories.py,*)
(* app/services/pricing_service.py).                                       *)
(*                                                                         *)
(* A MongoDB document is a function from field names to values, so that a  *)
(* field can be absent (dict.get with a default) and $set / $push act on   *)
(* the stored document.  Every request handler is a sequence of steps, one *)
(* per awaited database call: the handler reads a snapshot of the document *)
(* in its first step and writes in a later one, and the steps of different *)
(* requests interleave.  With a single request slot the requests are       *)
(* serialized.                                                             *)
(*                                                                         *)
(* Prices are integers; a tonnage is kept in tenths of a ton (35 is 3.5).  *)
(***************************************************************************)
EXTENDS Integers, Sequences, FiniteSets, TLC

VARIABLES
    consultations,      \* db.consultations: session_id -> document
    hvac_categories,    \* db.hvac_categories: the registry, in natural (insertion) order
    quiz_questions,     \* db.quiz_questions: the question catalog, in natural order
    users,              \* db.users: the user documents, in insertion order
    pricing_matrix,     \* PricingService.pricing_matrix of the module-level pricing_service
    multi_system_calls, \* how many estimates were computed with system_count >= 2
    overlaps,           \* how many requests arrived while another one was in flight
    pc,                 \* request slot -> the step its handler is at ("idle": free)
    local,              \* request slot -> the handler's local variables
    response            \* the response the latest step returned (empty: none)

vars == <<consultations, hvac_categories, quiz_questions, users, pricing_matrix,
          multi_system_calls, overlaps, pc, local, response>>

-----------------------------------------------------------------------------
(* Bounds of the model. *)

\* Estimates with system_count >= 2 the model follows (each one rescales a matrix row).
MaxMultiSystemCalls == 1

\* Requests that may arrive while another one is in flight.
MaxOverlaps == 1

-----------------------------------------------------------------------------
(* Documents. *)

EmptyDict == [k \in {} |-> 0]

Has(doc, key) == key \in DOMAIN doc

\* dict.get(key, default)
Get(doc, key, default) == IF key \in DOMAIN doc THEN doc[key] ELSE default

\* update_one(..., {"$set": upd})
SetFields(doc, upd) ==
    [k \in (DOMAIN doc) \cup (DOMAIN upd) |->
        IF k \in DOMAIN upd THEN upd[k] ELSE doc[k]]

\* A push that puts the item at the head of the list.
PushFieldFront(doc, key, item) ==
    SetFields(doc, [k \in {key} |-> <<item>> \o Get(doc, key, <<>>)])

\* update_one(..., {"$push": {key: item}})
PushField(doc, key, item) ==
    SetFields(doc, [k \in {key} |-> Append(Get(doc, key, <<>>), item)])

-----------------------------------------------------------------------------
(* Text.  A string is kept as a TLA+ string; CharTable gives its characters, *)
(* on which the searches of the code (in, lower, startswith) are computed.   *)

CharTable ==
       ("" :> <<>>)
    @@ ("1" :> <<"1">>)
    @@ ("2" :> <<"2">>)
    @@ ("3" :> <<"3">>)
    @@ ("4" :> <<"4">>)
    @@ ("Under 1,500 sq ft" :> <<"U", "n", "d", "e", "r", " ", "1", ",", "5",
        "0", "0", " ", "s", "q", " ", "f", "t">>)
    @@ ("1,500 - 2,200 sq ft" :> <<"1", ",", "5", "0", "0", " ", "-", " ",
        "2", ",", "2", "0", "0", " ", "s", "q", " ", "f", "t">>)
    @@ ("2,200 - 3,000 sq ft" :> <<"2", ",", "2", "0", "0", " ", "-", " ",
        "3", ",", "0", "0", "0", " ", "s", "q", " ", "f", "t">>)
    @@ ("Over 3,000 sq ft" :> <<"O", "v", "e", "r", " ", "3", ",", "0", "0",
        "0", " ", "s", "q", " ", "f", "t">>)
    @@ ("What's the approximate square footage of the area this system heats and cools?" :>
        <<"W", "h", "a", "t", "'", "s", " ", "t", "h", "e", " ", "a", "p",
        "p", "r", "o", "x", "i", "m", "a", "t", "e", " ", "s", "q", "u", "a",
        "r", "e", " ", "f", "o", "o", "t", "a", "g", "e", " ", "o", "f", " ",
        "t", "h", "e", " ", "a", "r", "e", "a", " ", "t", "h", "i", "s", " ",
        "s", "y", "s", "t", "e", "m", " ", "h", "e", "a", "t", "s", " ", "a",
        "n", "d", " ", "c", "o", "o", "l", "s", "?">>)
    @@ ("How many separate systems control your home's temperature?" :>
        <<"H", "o", "w", " ", "m", "a", "n", "y", " ", "s", "e", "p", "a",
        "r", "a", "t", "e", " ", "s", "y", "s", "t", "e", "m", "s", " ", "c",
        "o", "n", "t", "r", "o", "l", " ", "y", "o", "u", "r", " ", "h", "o",
        "m", "e", "'", "s", " ", "t", "e", "m", "p", "e", "r", "a", "t", "u",
        "r", "e", "?">>)
    @@ ("Anyone have any underlying health conditions like seasonal allergies etc?" :>
        <<"A", "n", "y", "o", "n", "e", " ", "h", "a", "v", "e", " ", "a",
        "n", "y", " ", "u", "n", "d", "e", "r", "l", "y", "i", "n", "g", " ",
        "h", "e", "a", "l", "t", "h", " ", "c", "o", "n", "d", "i", "t", "i",
        "o", "n", "s", " ", "l", "i", "k", "e", " ", "s", "e", "a", "s", "o",
        "n", "a", "l", " ", "a", "l", "l", "e", "r", "g", "i", "e", "s", " ",
        "e", "t", "c", "?">>)
    @@ ("seasonal allergies" :> <<"s", "e", "a", "s", "o", "n", "a", "l",
        " ", "a", "l", "l", "e", "r", "g", "i", "e", "s">>)
    @@ ("What's the #1 frustration you're hoping to solve with a new system? (Check all that apply)"
        :> <<"W", "h", "a", "t", "'", "s", " ", "t", "h", "e", " ", "#", "1",
        " ", "f", "r", "u", "s", "t", "r", "a", "t", "i", "o", "n", " ", "y",
        "o", "u", "'", "r", "e", " ", "h", "o", "p", "i", "n", "g", " ", "t",
        "o", " ", "s", "o", "l", "v", "e", " ", "w", "i", "t", "h", " ", "a",
        " ", "n", "e", "w", " ", "s", "y", "s", "t", "e", "m", "?", " ", "(",
        "C", "h", "e", "c", "k", " ", "a", "l", "l", " ", "t", "h", "a", "t",
        " ", "a", "p", "p", "l", "y", ")">>)
    @@ ("under 1,500 sq ft" :>
        <<"u", "n", "d", "e", "r", " ", "1", ",", "5", "0", "0", " ",
        "s", "q", " ", "f", "t">>)
    @@ ("UNDER 1,500 SQ FT" :>
        <<"U", "N", "D", "E", "R", " ", "1", ",", "5", "0", "0", " ",
        "S", "Q", " ", "F", "T">>)
    @@ ("Under 1500" :>
        <<"U", "n", "d", "e", "r", " ", "1", "5", "0", "0">>)
    @@ ("UNDER 1500 sqft" :>
        <<"U", "N", "D", "E", "R", " ", "1", "5", "0", "0", " ", "s",
        "q", "f", "t">>)
    @@ ("1500-2200" :>
        <<"1", "5", "0", "0", "-", "2", "2", "0", "0">>)
    @@ ("2200-3000" :>
        <<"2", "2", "0", "0", "-", "3", "0", "0", "0">>)
    @@ ("over 3,000 sq ft" :>
        <<"o", "v", "e", "r", " ", "3", ",", "0", "0", "0", " ", "s",
        "q", " ", "f", "t">>)
    @@ ("OVER 3000" :>
        <<"O", "V", "E", "R", " ", "3", "0", "0", "0">>)
    @@ ("around 1,500 - 2,200" :>
        <<"a", "r", "o", "u", "n", "d", " ", "1", ",", "5", "0", "0",
        " ", "-", " ", "2", ",", "2", "0", "0">>)
    @@ ("2 systems" :>
        <<"2", " ", "s", "y", "s", "t", "e", "m", "s">>)
    @@ ("five" :>
        <<"f", "i", "v", "e">>)
    @@ ("2 (1 upstairs)" :>
        <<"2", " ", "(", "1", " ", "u", "p", "s", "t", "a", "i", "r",
        "s", ")">>)
    @@ ("3 or 4" :>
        <<"3", " ", "o", "r", " ", "4">>)
    @@ ("4+" :>
        <<"4", "+">>)
    @@ ("image/jpeg" :> <<"i", "m", "a", "g", "e", "/", "j", "p", "e", "g">>)
    @@ ("application/pdf" :> <<"a", "p", "p", "l", "i", "c", "a", "t", "i",
        "o", "n", "/", "p", "d", "f">>)

Chars(s) == CharTable[s]

\* needle in hay
Contains(hay, needle) ==
    \E i \in 0..(Len(hay) - Len(needle)) :
        \A j \in 1..Len(needle) : hay[i + j] = needle[j]

\* hay.startswith(prefix)
StartsWith(hay, prefix) ==
    /\ Len(prefix) <= Len(hay)
    /\ \A j \in 1..Len(prefix) : hay[j] = prefix[j]

UpperCase == <<"A","B","C","D","E","F","G","H","I","J","K","L","M",
               "N","O","P","Q","R","S","T","U","V","W","X","Y","Z">>
LowerCase == <<"a","b","c","d","e","f","g","h","i","j","k","l","m",
               "n","o","p","q","r","s","t","u","v","w","x","y","z">>

LowerChar(c) ==
    IF \E i \in 1..26 : UpperCase[i] = c
    THEN LowerCase[CHOOSE i \in 1..26 : UpperCase[i] = c]
    ELSE c

\* str.lower()
Lower(s) == [i \in 1..Len(s) |-> LowerChar(s[i])]

(* A value of a JSON body or of a stored answer: a string, a number, a list of *)
(* strings, or None.                                                          *)
Str(s) == [type |-> "str", value |-> s]
Num(n) == [type |-> "number", value |-> n]
List(items) == [type |-> "list", value |-> items]
None == [type |-> "none"]

\* bool(v)
Truthy(v) ==
    CASE v.type = "none" -> FALSE
      [] v.type = "str" -> v.value # ""
      [] v.type = "number" -> v.value # 0
      [] v.type = "list" -> v.value # <<>>

-----------------------------------------------------------------------------
(* PricingService *)

Tier(lo, hi) == [minPrice |-> lo, maxPrice |-> hi]

\* PricingService.__init__: the pricing matrix, in table order
InitialPricingMatrix ==
    << [tonnage |-> 25, good |-> Tier(8500, 10500),
        better |-> Tier(11000, 13000), best |-> Tier(14000, 16500)],
       [tonnage |-> 35, good |-> Tier(9500, 11500),
        better |-> Tier(13500, 15500), best |-> Tier(17000, 19500)],
       [tonnage |-> 40, good |-> Tier(10500, 12500),
        better |-> Tier(14500, 16500), best |-> Tier(18000, 21000)],
       [tonnage |-> 50, good |-> Tier(11500, 14000),
        better |-> Tier(15500, 18000), best |-> Tier(19500, 23000)] >>

\* PricingService.determine_tonnage
determine_tonnage(square_footage) ==
    IF Contains(square_footage, <<"U","n","d","e","r"," ","1",",","5","0","0">>)
       \/ Contains(Lower(square_footage), <<"u","n","d","e","r"," ","1","5","0","0">>)
    THEN 25
    ELSE IF Contains(square_footage, <<"1",",","5","0","0"," ","-"," ","2",",","2","0","0">>)
            \/ Contains(square_footage, <<"1","5","0","0","-","2","2","0","0">>)
    THEN 35
    ELSE IF Contains(square_footage, <<"2",",","2","0","0"," ","-"," ","3",",","0","0","0">>)
            \/ Contains(square_footage, <<"2","2","0","0","-","3","0","0","0">>)
    THEN 40
    ELSE IF Contains(square_footage, <<"O","v","e","r"," ","3",",","0","0","0">>)
            \/ Contains(Lower(square_footage), <<"o","v","e","r"," ","3","0","0","0">>)
    THEN 50
    ELSE 35

\* determine_tonnage, tabulated over the strings of the model.
TonnageOf == [s \in DOMAIN CharTable |-> determine_tonnage(Chars(s))]

AbsDiff(a, b) == IF a >= b THEN a - b ELSE b - a

\* A lookup that breaks a tie towards the later row of the table
get_pricing_for_tonnage_last(matrix, tonnage) ==
    IF \E i \in 1..Len(matrix) : matrix[i].tonnage = tonnage
    THEN CHOOSE i \in 1..Len(matrix) :
            /\ matrix[i].tonnage = tonnage
            /\ \A j \in 1..(i - 1) : matrix[j].tonnage # tonnage
    ELSE CHOOSE i \in 1..Len(matrix) :
            /\ \A j \in 1..Len(matrix) :
                  AbsDiff(matrix[i].tonnage, tonnage) <= AbsDiff(matrix[j].tonnage, tonnage)
            /\ \A j \in (i + 1)..Len(matrix) :
                  AbsDiff(matrix[j].tonnage, tonnage) > AbsDiff(matrix[i].tonnage, tonnage)

\* PricingService.get_pricing_for_tonnage: the index of the row it returns
get_pricing_for_tonnage(matrix, tonnage) ==
    IF \E i \in 1..Len(matrix) : matrix[i].tonnage = tonnage
    THEN CHOOSE i \in 1..Len(matrix) :
            /\ matrix[i].tonnage = tonnage
            /\ \A j \in 1..(i - 1) : matrix[j].tonnage # tonnage
    ELSE CHOOSE i \in 1..Len(matrix) :
            /\ \A j \in 1..Len(matrix) :
                  AbsDiff(matrix[i].tonnage, tonnage) <= AbsDiff(matrix[j].tonnage, tonnage)
            /\ \A j \in 1..(i - 1) :
                  AbsDiff(matrix[j].tonnage, tonnage) > AbsDiff(matrix[i].tonnage, tonnage)

\* int(price * 1.85)
TimesMultiplier(price) == (price * 185) \div 100

ScaleTier(t) ==
    [minPrice |-> TimesMultiplier(t.minPrice), maxPrice |-> TimesMultiplier(t.maxPrice)]

\* PricingService.apply_multi_system_multiplier: the tier dicts it is handed, as it
\* leaves them
apply_multi_system_multiplier(pricing, system_count) ==
    IF system_count >= 2
    THEN [pricing EXCEPT !.good = ScaleTier(@), !.better = ScaleTier(@),
                         !.best = ScaleTier(@)]
    ELSE pricing

\* A count that takes the first of the digits 1 to 4 in reading order.
extract_system_count_leftmost(system_count_answer) ==
    LET a == system_count_answer
        text == IF a.type = "str" THEN Chars(a.value) ELSE <<>>
        hits == {i \in 1..Len(text) : text[i] \in {"1", "2", "3", "4"}}
        first == text[CHOOSE i \in hits : \A j \in hits : i <= j]
    IN  [raised |-> FALSE,
         count |-> IF hits = {} THEN 1
                   ELSE CASE first = "1" -> 1 [] first = "2" -> 2
                          [] first = "3" -> 3 [] first = "4" -> 4]

\* PricingService.extract_system_count.  "raised" is the TypeError of
\* `"1" in system_count_answer` on a number.
extract_system_count(system_count_answer) ==
    LET a == system_count_answer
        has(d) == IF a.type = "str" THEN Contains(Chars(a.value), <<d>>)
                  ELSE \E i \in 1..Len(a.value) : a.value[i] = d
    IN  IF ~Truthy(a) THEN [raised |-> FALSE, count |-> 1]
        ELSE IF a.type = "number" THEN [raised |-> TRUE, count |-> 0]
        ELSE IF has("1") THEN [raised |-> FALSE, count |-> 1]
        ELSE IF has("2") THEN [raised |-> FALSE, count |-> 2]
        ELSE IF has("3") THEN [raised |-> FALSE, count |-> 3]
        ELSE IF has("4") THEN [raised |-> FALSE, count |-> 4]
        ELSE [raised |-> FALSE, count |-> 1]

LabelledTier(label, t) ==
    [label |-> label, minPrice |-> t.minPrice, maxPrice |-> t.maxPrice]

\* PricingService.calculate_estimate on a string: the estimate it returns, and the
\* pricing matrix as the call leaves it.  base_pricing.copy() is a shallow copy, so
\* the tier dicts the multiplier rewrites are those of the matrix row.
calculate_estimate(matrix, square_footage, system_count) ==
    LET tonnage == TonnageOf[square_footage]
        row == get_pricing_for_tonnage(matrix, tonnage)
        final_pricing == apply_multi_system_multiplier(matrix[row], system_count)
    IN  [estimate |->
            [estimates |->
                [good |-> LabelledTier("Budget-Focused", final_pricing.good),
                 better |-> LabelledTier("Efficiency & Value", final_pricing.better),
                 best |-> LabelledTier("Ultimate Comfort", final_pricing.best)],
             tonnage |-> tonnage,
             systemCount |-> system_count],
         matrix |-> [matrix EXCEPT ![row] = final_pricing]]

\* calculate_pricing_estimate: the hardcoded estimate of its except branch
FallbackEstimate ==
    [estimates |->
        [good |-> LabelledTier("Budget-Focused", Tier(9500, 11500)),
         better |-> LabelledTier("Efficiency & Value", Tier(13500, 15500)),
         best |-> LabelledTier("Ultimate Comfort", Tier(17000, 19500))],
     tonnage |-> 35,
     systemCount |-> 1,
     error |-> "Pricing calculation error"]

\* Which of the three answers calculate_pricing_estimate takes an entry with this
\* question text for.
TextKind(question_text) ==
    LET text == Lower(Chars(question_text))
    IN  IF Contains(text, <<"s","q","u","a","r","e"," ","f","o","o","t","a","g","e">>)
        THEN "square_footage"
        ELSE IF Contains(text, <<"h","o","w"," ","m","a","n","y"," ","s","e","p","a","r",
                                 "a","t","e"," ","s","y","s","t","e","m","s">>)
        THEN "system_count"
        ELSE IF Contains(text, <<"w","h","i","c","h"," ","o","f"," ","t","h","e","s","e",
                                 " ","s","o","u","n","d","s"," ","m","o","s","t"," ",
                                 "l","i","k","e"," ","y","o","u">>)
        THEN "project_goal"
        ELSE "other"

\* TextKind, tabulated over the strings of the model.
TextKindOf == [s \in DOMAIN CharTable |-> TextKind(s)]

AnswerKind(answer_data) == TextKindOf[Get(answer_data, "question_text", "")]

\* The value the loop over quiz_answers.values() leaves in the variable of `kind`:
\* that of the last entry of the kind, None when there is none.
LastAnswer(quiz_answers, kind) ==
    LET idx == {i \in 1..Len(quiz_answers) : AnswerKind(quiz_answers[i]) = kind}
    IN  IF idx = {} THEN None
        ELSE Get(quiz_answers[CHOOSE i \in idx : \A j \in idx : j <= i], "answer", Str(""))

\* calculate_pricing_estimate.  "raised": extract_system_count, called outside the
\* try, raised.  A square footage that is no string makes determine_tonnage raise
\* inside the try, before the matrix is touched.
calculate_pricing_estimate(quiz_answers, matrix) ==
    LET square_footage_text == LastAnswer(quiz_answers, "square_footage")
        system_count == extract_system_count(LastAnswer(quiz_answers, "system_count"))
        square_footage == IF Truthy(square_footage_text) THEN square_footage_text
                          ELSE Str("1,500 - 2,200 sq ft")
    IN  IF system_count.raised
        THEN [raised |-> TRUE, estimate |-> FallbackEstimate, matrix |-> matrix]
        ELSE IF square_footage.type # "str"
        THEN [raised |-> FALSE, estimate |-> FallbackEstimate, matrix |-> matrix]
        ELSE LET r == calculate_estimate(matrix, square_footage.value, system_count.count)
             IN  [raised |-> FALSE, estimate |-> r.estimate, matrix |-> r.matrix]

-----------------------------------------------------------------------------
(* The question catalog (db.quiz_questions).  Questions holds three of the    *)
(* questions seed_quiz_questions writes.                                      *)

Questions ==
    << [id |-> "q6",
        question_text |-> "What's the approximate square footage of the area this system heats and cools?",
        input_type |-> "radio",
        options |-> <<"Under 1,500 sq ft", "1,500 - 2,200 sq ft",
                      "2,200 - 3,000 sq ft", "Over 3,000 sq ft">>,
        is_required |-> TRUE, order |-> 6],
       [id |-> "q7",
        question_text |-> "How many separate systems control your home's temperature?",
        input_type |-> "radio",
        options |-> <<"1", "2", "3", "4">>,
        is_required |-> TRUE, order |-> 7],
       [id |-> "q9",
        question_text |-> "Anyone have any underlying health conditions like seasonal allergies etc?",
        input_type |-> "text",
        is_required |-> FALSE, order |-> 9] >>

\* A catalog as an administrator of the database may keep it: the square-footage
\* question and the checkbox question as seeded, the system-count question asked
\* as a number, the optional text question.
SurveyQuestions ==
    << Questions[1],
       [id |-> "q7",
        question_text |-> "How many separate systems control your home's temperature?",
        input_type |-> "number",
        is_required |-> TRUE, order |-> 7],
       Questions[3],
       [id |-> "q10",
        question_text |-> "What's the #1 frustration you're hoping to solve with a new system? (Check all that apply)",
        input_type |-> "checkbox",
        options |-> <<"High Energy Bills", "Uneven Temperatures (Hot & cold spots)",
                      "Poor Air Quality (Allergies, dust, stuffiness)",
                      "System is Too Loud", "It's Unreliable / Broken Down",
                      "It's Just Old & I'm Planning Ahead">>,
        is_required |-> TRUE, order |-> 10] >>

InSeq(x, s) == \E i \in 1..Len(s) : s[i] = x

\* questions_dict[question_id]
QuestionById(id) ==
    quiz_questions[CHOOSE i \in 1..Len(quiz_questions) : quiz_questions[i].id = id]

IsQuestionId(id) == \E i \in 1..Len(quiz_questions) : quiz_questions[i].id = id

\* question.get("options"), as a condition
HasOptions(q) == Get(q, "options", <<>>) # <<>>

\* A number check that lets every answer through.
ParsesAsFloatAlways(v) == TRUE

\* float(answer) succeeds: a number, or a string of digits
ParsesAsFloat(v) ==
    \/ v.type = "number"
    \/ /\ v.type = "str"
       /\ Chars(v.value) # <<>>
       /\ \A i \in 1..Len(Chars(v.value)) :
              Chars(v.value)[i] \in {"0","1","2","3","4","5","6","7","8","9"}

\* submit_consultation_answers: what the body of the loop over answers.items()
\* raises for one item ("none": nothing)
AnswerError(item) ==
    IF ~IsQuestionId(item.id) THEN "InvalidQuestionError"
    ELSE LET q == QuestionById(item.id)
             a == item.answer
         IN  IF q.input_type = "number"
             THEN (IF ParsesAsFloat(a) THEN "none" ELSE "InvalidAnswerError")
             ELSE IF q.input_type = "checkbox" /\ HasOptions(q)
             THEN (IF a.type # "list" THEN "InvalidAnswerError"
                   ELSE IF \E i \in 1..Len(a.value) : ~InSeq(a.value[i], q.options)
                   THEN "InvalidOptionError"
                   ELSE "none")
             ELSE IF q.input_type = "radio" /\ HasOptions(q)
             THEN (IF a.type # "str" \/ ~InSeq(a.value, q.options)
                   THEN "InvalidOptionError" ELSE "none")
             ELSE "none"

\* formatted_answers[question_id]
FormattedAnswer(item) ==
    LET q == QuestionById(item.id)
    IN  [id |-> item.id, question_text |-> q.question_text,
         input_type |-> q.input_type, order |-> q.order, answer |-> item.answer]

\* A write that keeps the stored answers the new body does not replace.
MergedAnswers(quiz_answers, formatted_answers) ==
    SelectSeq(quiz_answers,
              LAMBDA old : \A i \in 1..Len(formatted_answers) :
                               formatted_answers[i].id # old.id)
    \o formatted_answers

\* "$set": {"quiz_answers": formatted_answers}: the value stored
StoredAnswers(quiz_answers, formatted_answers) == formatted_answers

\* submit_consultation_answers, lines 70-130: the validation of a body.  The body
\* is a JSON object: a sequence of items [id, answer] with distinct ids.
ValidateAnswers(answers) ==
    LET ids == {answers[i].id : i \in 1..Len(answers)}
        missing == {i \in 1..Len(quiz_questions) :
                        quiz_questions[i].is_required /\ quiz_questions[i].id \notin ids}
        bad == {i \in 1..Len(answers) : AnswerError(answers[i]) # "none"}
    IN  IF missing # {}
        THEN [ok |-> FALSE, error |-> "MissingAnswerError",
              question |->
                  quiz_questions[CHOOSE i \in missing : \A j \in missing : i <= j].question_text]
        ELSE IF bad # {}
        THEN [ok |-> FALSE,
              error |-> AnswerError(answers[CHOOSE i \in bad : \A j \in bad : i <= j]),
              question |-> ""]
        ELSE [ok |-> TRUE,
              formatted_answers |-> [i \in 1..Len(answers) |-> FormattedAnswer(answers[i])]]

-----------------------------------------------------------------------------
(* The image category registry and the discount accumulator. *)

\* seed_hvac_categories: the catalog it writes (the fields the core reads)
SeededCategories ==
    << [category |-> "outdoor_unit", discount_amount |-> 150,
        sub_categories |-> <<"big_picture", "data_plate">>],
       [category |-> "power_hub", discount_amount |-> 50,
        sub_categories |-> <<"panel_cover", "inside_panel">>],
       [category |-> "command_center", discount_amount |-> 25,
        sub_categories |-> <<"main_thermostat">>],
       [category |-> "indoor_system", discount_amount |-> 500,
        sub_categories |-> <<"indoor_unit">>],
       [category |-> "energy_bill", discount_amount |-> 200,
        sub_categories |-> <<"recent_bill">>] >>

valid_categories ==
    {"outdoor_unit", "power_hub", "command_center", "indoor_system", "energy_bill"}

valid_sub_categories ==
    {"big_picture", "data_plate", "panel_cover", "inside_panel", "main_thermostat",
     "indoor_unit", "recent_bill"}

\* The cap of upload_hvac_image
MaxImages == 7

\* A cap that lets an eighth image in.
ImageLimitReachedStrict(existing_images) == Len(existing_images) > MaxImages

\* len(existing_images) >= 7
ImageLimitReached(existing_images) == Len(existing_images) >= MaxImages

\* A duplicate check that looks at the last stored image only.
AlreadyUploadedLast(existing_images, category, sub_category) ==
    /\ existing_images # <<>>
    /\ existing_images[Len(existing_images)].category = category
    /\ existing_images[Len(existing_images)].sub_category = sub_category

\* A duplicate check that compares the sub-category of an image with the category.
AlreadyUploadedMixedUp(existing_images, category, sub_category) ==
    \E i \in 1..Len(existing_images) :
        /\ existing_images[i].category = category
        /\ existing_images[i].sub_category = category

\* an image of existing_images has this category and sub_category
AlreadyUploaded(existing_images, category, sub_category) ==
    \E i \in 1..Len(existing_images) :
        /\ existing_images[i].category = category
        /\ existing_images[i].sub_category = sub_category

\* category_image_counts.get(category_key, 0)
CategoryImageCount(images, category_key) ==
    Cardinality({i \in 1..Len(images) : images[i].category = category_key})

\* A completion test that asks for one image more than the registry declares.
IsFullyCompletedStrict(cat, images) ==
    CategoryImageCount(images, Get(cat, "category", "")) > Len(Get(cat, "sub_categories", <<>>))

\* A completion test that also wants the photos of the category taken in the
\* order of its declared sub-categories.
IsFullyCompletedInOrder(cat, images) ==
    LET of_category == SelectSeq(images, LAMBDA img : img.category = Get(cat, "category", ""))
        declared == Get(cat, "sub_categories", <<>>)
    IN  /\ Len(of_category) >= Len(declared)
        /\ \A i \in 1..Len(declared) : of_category[i].sub_category = declared[i]

\* uploaded_images >= required_images
IsFullyCompleted(cat, images) ==
    CategoryImageCount(images, Get(cat, "category", "")) >= Len(Get(cat, "sub_categories", <<>>))

\* fully_completed_categories, in registry order
FullyCompletedCategories(registry, images) ==
    LET done == SelectSeq(registry, LAMBDA cat : IsFullyCompleted(cat, images))
    IN  [i \in 1..Len(done) |-> Get(done[i], "category", "")]

RECURSIVE SumDiscounts(_, _, _)
SumDiscounts(registry, images, i) ==
    IF i > Len(registry) THEN 0
    ELSE (IF IsFullyCompleted(registry[i], images)
          THEN Get(registry[i], "discount_amount", 0) ELSE 0)
         + SumDiscounts(registry, images, i + 1)

\* A total computed from the images stored before the new one.
NewTotalDiscountStale(registry, images) ==
    SumDiscounts(registry, SubSeq(images, 1, Len(images) - 1), 1)

\* new_total_discount
NewTotalDiscount(registry, images) == SumDiscounts(registry, images, 1)

\* update_one({"category": category}, {"$set": category_data}, upsert=True)
UpsertCategory(registry, category, category_data) ==
    LET data == IF Has(category_data, "category") THEN category_data
                ELSE SetFields(category_data, [category |-> category])
        hits == {i \in 1..Len(registry) : Get(registry[i], "category", "") = category}
    IN  IF hits = {} THEN Append(registry, data)
        ELSE [registry EXCEPT ![CHOOSE i \in hits : \A j \in hits : i <= j] =
                                    SetFields(@, data)]

\* A no-estimate error raised as the not-found error.
NoEstimateAsNotFound(sid) ==
    [op |-> "applyDiscountOnce", session_id |-> sid, code |-> 404,
     error |-> "NotFoundError"]

\* update_estimate_with_discount: the HTTPException of lines 529-530
NoEstimateError(sid) ==
    [op |-> "applyDiscountOnce", session_id |-> sid, code |-> 400,
     error |-> "NoEstimateError"]

\* A one-time check that looks for the marker of the estimate in the consultation.
DiscountAlreadyAppliedWrongKey(consultation) == Has(consultation, "discount_applied")

\* update_estimate_with_discount: consultation.get("original_pricing_estimate")
DiscountAlreadyApplied(consultation) == Has(consultation, "original_pricing_estimate")

\* A zero test that never holds for a discount of 0.
NoDiscountNegative(total_discount) == total_discount < 0

\* update_estimate_with_discount: total_discount == 0
NoDiscount(total_discount) == total_discount = 0

\* A tier discount without the floor at 0.
DiscountTierUnclamped(t, total_discount) ==
    [label |-> t.label,
     minPrice |-> t.minPrice - total_discount,
     maxPrice |-> t.maxPrice - total_discount]

\* update_estimate_with_discount: max(0, price - total_discount) on a tier
DiscountTier(t, total_discount) ==
    [label |-> t.label,
     minPrice |-> IF t.minPrice - total_discount > 0 THEN t.minPrice - total_discount ELSE 0,
     maxPrice |-> IF t.maxPrice - total_discount > 0 THEN t.maxPrice - total_discount ELSE 0]

\* update_estimate_with_discount: discounted_estimate
DiscountedEstimate(original_estimate, total_discount, completed_categories) ==
    [estimates |->
        [good |-> DiscountTier(original_estimate.estimates.good, total_discount),
         better |-> DiscountTier(original_estimate.estimates.better, total_discount),
         best |-> DiscountTier(original_estimate.estimates.best, total_discount)],
     tonnage |-> Get(original_estimate, "tonnage", 35),
     systemCount |-> Get(original_estimate, "systemCount", 1),
     discount_applied |-> total_discount,
     completed_categories |-> completed_categories]

-----------------------------------------------------------------------------
(* Request slots.  A handler starts in the first free slot (the slots are     *)
(* interchangeable) and ends by returning its response.                      *)

Idle(p) ==
    /\ pc[p] = "idle"
    /\ \A q \in DOMAIN pc : q < p => pc[q] # "idle"
    /\ (\E q \in DOMAIN pc : pc[q] # "idle") => overlaps < MaxOverlaps

Overlapping == IF \E q \in DOMAIN pc : pc[q] # "idle" THEN 1 ELSE 0

\* The request in slot p returns r.
Finish(p, r) ==
    /\ pc' = [pc EXCEPT ![p] = "idle"]
    /\ local' = [local EXCEPT ![p] = EmptyDict]
    /\ response' = r
    /\ overlaps' = IF pc[p] = "idle" THEN overlaps + Overlapping ELSE overlaps

\* The handler in slot p goes on to `step` with the local variables l.
Goto(p, step, l) ==
    /\ pc' = [pc EXCEPT ![p] = step]
    /\ local' = [local EXCEPT ![p] = l]
    /\ response' = EmptyDict
    /\ overlaps' = IF pc[p] = "idle" THEN overlaps + Overlapping ELSE overlaps

\* raise HTTPException(status_code=code, ...)
HttpError(op, sid, code, error) ==
    [op |-> op, session_id |-> sid, code |-> code, error |-> error]

\* A not-found answer that blames the request.
SessionNotFoundAsBadRequest(op, sid) == HttpError(op, sid, 400, "NotFoundError")

\* `if not consultation: raise HTTPException(status_code=404, ...)`
SessionNotFound(op, sid) == HttpError(op, sid, 404, "NotFoundError")

-----------------------------------------------------------------------------
(* create_session *)

\* A session id that may be that of a stored consultation.
FreshIdsAny(new_ids) == new_ids

\* str(uuid.uuid4()), under the unique index on session_id: an id no stored
\* consultation has
FreshIds(new_ids) == new_ids \ DOMAIN consultations

create_session(p, new_ids) ==
    /\ Idle(p)
    /\ \E sid \in FreshIds(new_ids) :
          LET consultation == [session_id |-> sid, status |-> "pending",
                               quiz_answers |-> <<>>]
          IN  /\ consultations' = (sid :> consultation) @@ consultations
              /\ Finish(p, [op |-> "createSession", session_id |-> sid, code |-> 200,
                            consultation |-> consultation])
    /\ UNCHANGED <<hvac_categories, pricing_matrix, multi_system_calls, quiz_questions, users>>

-----------------------------------------------------------------------------
(* submit_consultation_answers *)

\* find_one, the catalog, the validation
submit_consultation_answers_read(p, sid, answers) ==
    /\ Idle(p)
    /\ UNCHANGED <<consultations, hvac_categories, pricing_matrix, multi_system_calls,
                   quiz_questions, users>>
    /\ IF sid \notin DOMAIN consultations
       THEN Finish(p, SessionNotFound("submitAnswers", sid))
       ELSE LET v == ValidateAnswers(answers)
            IN  IF ~v.ok
                THEN Finish(p, SetFields(HttpError("submitAnswers", sid, 400, v.error),
                                         [question |-> v.question]))
                ELSE Goto(p, "submit_write",
                          [op |-> "submitAnswers", session_id |-> sid,
                           formatted_answers |-> v.formatted_answers])

\* update_one $set quiz_answers, status; modified_count == 0 is an error
submit_consultation_answers_write(p) ==
    /\ pc[p] = "submit_write"
    /\ LET l == local[p]
           before == consultations[l.session_id]
           after == SetFields(before, [quiz_answers |->
                                           StoredAnswers(before.quiz_answers,
                                                         l.formatted_answers),
                                       status |-> "answers_submitted"])
       IN  /\ consultations' = [consultations EXCEPT ![l.session_id] = after]
           /\ IF after = before
              THEN Finish(p, HttpError("submitAnswers", l.session_id, 400, "UpdateFailedError"))
              ELSE Goto(p, "submit_return", l)
    /\ UNCHANGED <<hvac_categories, pricing_matrix, multi_system_calls, quiz_questions, users>>

\* find_one, return the updated consultation
submit_consultation_answers_return(p) ==
    /\ pc[p] = "submit_return"
    /\ Finish(p, [op |-> "submitAnswers", session_id |-> local[p].session_id,
                  code |-> 200, consultation |-> consultations[local[p].session_id]])
    /\ UNCHANGED <<consultations, hvac_categories, pricing_matrix, multi_system_calls,
                   quiz_questions, users>>

-----------------------------------------------------------------------------
(* upload_hvac_image *)

\* A status check that lets a pending consultation through.
UploadAllowedAlways(status) ==
    status \in {"pending", "answers_submitted", "estimate_ready", "images_uploaded"}

\* consultation["status"] in ["answers_submitted", "estimate_ready", "images_uploaded"]
UploadAllowed(status) ==
    status \in {"answers_submitted", "estimate_ready", "images_uploaded"}

\* A status update that forgets the estimate.
NewStatusAlwaysUploaded(status) == "images_uploaded"

\* A status update that closes the consultation once its estimate is ready.
NewStatusCompletes(status) ==
    IF status # "estimate_ready" THEN "images_uploaded" ELSE "completed"

\* A status update that announces an estimate whatever the status was.
NewStatusEstimateReady(status) == "estimate_ready"

\* new_status, line 246
NewStatus(status) ==
    IF status # "estimate_ready" THEN "images_uploaded" ELSE "estimate_ready"

UploadError(sid, category, sub_category, code, error) ==
    SetFields(HttpError("uploadImage", sid, code, error),
              [category |-> category, sub_category |-> sub_category])

\* find_one and the checks on the snapshot, lines 170-217
upload_hvac_image_read(p, sid, category, sub_category, content_type) ==
    /\ Idle(p)
    /\ UNCHANGED <<consultations, hvac_categories, pricing_matrix, multi_system_calls,
                   quiz_questions, users>>
    /\ IF sid \notin DOMAIN consultations
       THEN Finish(p, SetFields(SessionNotFound("uploadImage", sid),
                                [category |-> category, sub_category |-> sub_category]))
       ELSE LET consultation == consultations[sid]
                existing_images == Get(consultation, "images", <<>>)
            IN  IF ~UploadAllowed(consultation.status)
                THEN Finish(p, UploadError(sid, category, sub_category, 400,
                                           "PrematureUploadError"))
                ELSE IF category \notin valid_categories
                        \/ sub_category \notin valid_sub_categories
                THEN Finish(p, UploadError(sid, category, sub_category, 400,
                                           "InvalidCategoryError"))
                ELSE IF ~StartsWith(Chars(content_type), <<"i","m","a","g","e","/">>)
                THEN Finish(p, UploadError(sid, category, sub_category, 400,
                                           "InvalidFileTypeError"))
                ELSE IF ImageLimitReached(existing_images)
                THEN Finish(p, UploadError(sid, category, sub_category, 400,
                                           "ImageLimitError"))
                ELSE IF AlreadyUploaded(existing_images, category, sub_category)
                THEN Finish(p, UploadError(sid, category, sub_category, 400,
                                           "DuplicateCategoryError"))
                ELSE Goto(p, "upload_push",
                          [op |-> "uploadImage", session_id |-> sid,
                           consultation |-> [status |-> consultation.status,
                                             images |-> existing_images],
                           category |-> category, sub_category |-> sub_category])

\* the object-storage upload, then update_one $set status, $push images
upload_hvac_image_push(p) ==
    /\ pc[p] = "upload_push"
    /\ LET l == local[p]
           existing_images == Get(l.consultation, "images", <<>>)
           image == [image_number |-> Len(existing_images) + 1,
                     category |-> l.category, sub_category |-> l.sub_category]
           new_status == NewStatus(l.consultation.status)
       IN  /\ consultations' =
                  [consultations EXCEPT ![l.session_id] =
                      PushField(SetFields(@, [status |-> new_status]), "images", image)]
           /\ Goto(p, "upload_registry", SetFields(l, [image |-> image]))
    /\ UNCHANGED <<hvac_categories, pricing_matrix, multi_system_calls, quiz_questions, users>>

\* hvac_categories.find(), and the recomputation from existing_images + [image]
upload_hvac_image_registry(p) ==
    /\ pc[p] = "upload_registry"
    /\ LET l == local[p]
           images == Append(Get(l.consultation, "images", <<>>), l.image)
       IN  Goto(p, "upload_write",
                SetFields(l, [hvac_categories |-> hvac_categories,
                              fully_completed_categories |->
                                  FullyCompletedCategories(hvac_categories, images),
                              new_total_discount |->
                                  NewTotalDiscount(hvac_categories, images)]))
    /\ UNCHANGED <<consultations, hvac_categories, pricing_matrix, multi_system_calls,
                   quiz_questions, users>>

\* A discount update that also clears the answers.
DiscountUpdateClearsAnswers(new_total_discount, fully_completed_categories) ==
    [total_discount |-> new_total_discount,
     completed_categories |-> fully_completed_categories,
     quiz_answers |-> <<>>]

\* the $set document of the second update_one, lines 281-289
DiscountUpdate(new_total_discount, fully_completed_categories) ==
    [total_discount |-> new_total_discount,
     completed_categories |-> fully_completed_categories]

\* update_one $set total_discount, completed_categories; the response
upload_hvac_image_write(p) ==
    /\ pc[p] = "upload_write"
    /\ LET l == local[p]
           total_images == Len(Get(l.consultation, "images", <<>>)) + 1
       IN  /\ consultations' =
                  [consultations EXCEPT ![l.session_id] =
                      SetFields(@, DiscountUpdate(l.new_total_discount,
                                                  l.fully_completed_categories))]
           /\ Finish(p, [op |-> "uploadImage", session_id |-> l.session_id, code |-> 200,
                         category |-> l.category, sub_category |-> l.sub_category,
                         image_number |-> l.image.image_number,
                         total_images |-> total_images,
                         completed_categories |-> l.fully_completed_categories,
                         total_discount |-> l.new_total_discount,
                         remaining_images |-> MaxImages - total_images])
    /\ UNCHANGED <<hvac_categories, pricing_matrix, multi_system_calls, quiz_questions, users>>

\* A failure of the object storage that leaves the image record in the consultation.
upload_hvac_image_fail_stored(p) ==
    /\ pc[p] \in {"upload_push", "upload_registry", "upload_write"}
    /\ LET l == local[p]
           image == [image_number |-> Len(Get(l.consultation, "images", <<>>)) + 1,
                     category |-> l.category, sub_category |-> l.sub_category]
       IN  consultations' =
               IF pc[p] = "upload_push"
               THEN [consultations EXCEPT ![l.session_id] = PushField(@, "images", image)]
               ELSE consultations
    /\ Finish(p, SetFields(UploadError(local[p].session_id, local[p].category,
                                       local[p].sub_category, 500, "DependencyError"),
                           [failed_at |-> pc[p]]))
    /\ UNCHANGED <<hvac_categories, pricing_matrix, multi_system_calls, quiz_questions, users>>

\* except Exception: the object storage or a database call of the try block failed
upload_hvac_image_fail(p) ==
    /\ pc[p] \in {"upload_push", "upload_registry", "upload_write"}
    /\ Finish(p, SetFields(UploadError(local[p].session_id, local[p].category,
                                       local[p].sub_category, 500, "DependencyError"),
                           [failed_at |-> pc[p]]))
    /\ UNCHANGED <<consultations, hvac_categories, pricing_matrix, multi_system_calls,
                   quiz_questions, users>>

-----------------------------------------------------------------------------
(* get_consultation_details: one find_one *)

get_consultation_details(p, sid) ==
    /\ Idle(p)
    /\ UNCHANGED <<consultations, hvac_categories, pricing_matrix, multi_system_calls,
                   quiz_questions, users>>
    /\ IF sid \notin DOMAIN consultations
       THEN Finish(p, SessionNotFound("getDetails", sid))
       ELSE LET consultation == consultations[sid]
            IN  Finish(p, [op |-> "getDetails", session_id |-> sid, code |-> 200,
                           consultation |-> consultation,
                           discount_summary |->
                               [total_discount |-> Get(consultation, "total_discount", 0),
                                completed_categories |->
                                    Get(consultation, "completed_categories", <<>>),
                                total_images |-> Len(Get(consultation, "images", <<>>)),
                                max_images |-> MaxImages]])

-----------------------------------------------------------------------------
(* analyze_all_consultation_images *)

\* image.get("s3_key"): the key upload_hvac_image derived from the fields of the
\* image record (line 225)
S3Key(image) ==
    [category |-> image.category, sub_category |-> image.sub_category,
     image_number |-> image.image_number]

\* What happens to one image of the batch: download_image_from_s3 returns None,
\* or analyze_image fails (no text found, API error, exception), or it finds text.
ImageOutcomes == {"download_failed", "ocr_failed", "text"}

\* What the batch meets: an outcome for each image key.
AnalysisOutcomes(images) == [1..Len(images) -> ImageOutcomes]

\* What the language model answers with: JSON, or something else.
Replies == {"json", "not_json"}

\* analyze_image: the result for a downloaded image
analyze_image(image_key, outcome) ==
    IF outcome = "text"
    THEN [success |-> TRUE, text_detected |-> [text_of |-> image_key]]
    ELSE [success |-> FALSE, error |-> "OcrError", text_detected |-> ""]

\* analyze_with_openai: "analysis" of its result (the null analysis for an empty
\* text and for a reply that is no JSON)
analyze_with_openai(text, reply) ==
    IF text = <<>> THEN "null_analysis"
    ELSE IF reply = "json" THEN "hvac_info"
    ELSE "null_analysis"

\* `if image_content:` an image that was downloaded gets an entry in results
IsRecorded(outcome) == outcome # "download_failed"

\* analyze_consultation_images.  combined_text is kept as the sequence of the texts
\* that "\n\n".join puts together.
analyze_consultation_images(image_keys, outcome, reply) ==
    LET indices == [i \in 1..Len(image_keys) |-> i]
        recorded == SelectSeq(indices, LAMBDA i : IsRecorded(outcome[i]))
        read == SelectSeq(indices, LAMBDA i : outcome[i] = "text")
        results == [k \in 1..Len(recorded) |->
                       [image_key |-> image_keys[recorded[k]],
                        analysis |-> analyze_image(image_keys[recorded[k]],
                                                   outcome[recorded[k]])]]
        combined_text == [k \in 1..Len(read) |->
                             analyze_image(image_keys[read[k]], "text").text_detected]
    IN  [individual_results |-> results,
         combined_text |-> combined_text,
         total_images_analyzed |-> Len(results),
         hvac_info |-> analyze_with_openai(combined_text, reply)]

\* A status check that lets every consultation through.
AnalysisAllowedAlways(status) == TRUE

\* consultation["status"] in ["images_uploaded", "estimate_ready", "completed"]
AnalysisAllowed(status) ==
    status \in {"images_uploaded", "estimate_ready", "completed"}

\* find_one and the checks, lines 350-358
analyze_all_consultation_images_read(p, sid) ==
    /\ Idle(p)
    /\ UNCHANGED <<consultations, hvac_categories, pricing_matrix, multi_system_calls,
                   quiz_questions, users>>
    /\ IF sid \notin DOMAIN consultations
       THEN Finish(p, SessionNotFound("analyzeImages", sid))
       ELSE LET consultation == consultations[sid]
                images == Get(consultation, "images", <<>>)
            IN  IF ~AnalysisAllowed(consultation.status)
                THEN Finish(p, HttpError("analyzeImages", sid, 400, "StatusError"))
                ELSE IF images = <<>>
                THEN Finish(p, HttpError("analyzeImages", sid, 404, "NoImagesError"))
                ELSE Goto(p, "analyze_write",
                          [op |-> "analyzeImages", session_id |-> sid,
                           images |-> images])

\* the analyzer, then update_one $set image_analysis, and the response (with it,
\* what the batch met: `outcome`)
analyze_all_consultation_images_write(p) ==
    /\ pc[p] = "analyze_write"
    /\ \E reply \in Replies :
       \E outcome \in AnalysisOutcomes(local[p].images) :
          LET l == local[p]
              image_keys == [i \in 1..Len(l.images) |-> S3Key(l.images[i])]
              analysis_results == analyze_consultation_images(image_keys, outcome, reply)
          IN  /\ consultations' =
                     [consultations EXCEPT ![l.session_id] =
                         SetFields(@, [image_analysis |-> analysis_results])]
              /\ Finish(p, [op |-> "analyzeImages", session_id |-> l.session_id,
                            code |-> 200, outcome |-> outcome,
                            results |-> analysis_results])
    /\ UNCHANGED <<hvac_categories, pricing_matrix, multi_system_calls, quiz_questions, users>>

\* except Exception: the analyzer or the update raised
analyze_all_consultation_images_fail(p) ==
    /\ pc[p] = "analyze_write"
    /\ Finish(p, HttpError("analyzeImages", local[p].session_id, 500, "InternalError"))
    /\ UNCHANGED <<consultations, hvac_categories, pricing_matrix, multi_system_calls,
                   quiz_questions, users>>

-----------------------------------------------------------------------------
(* generate_pricing_estimate *)

\* find_one and calculate_pricing_estimate (which runs on the shared pricing_service)
generate_pricing_estimate_read(p, sid) ==
    /\ Idle(p)
    /\ UNCHANGED <<consultations, hvac_categories, quiz_questions, users>>
    /\ IF sid \notin DOMAIN consultations
       THEN /\ Finish(p, SessionNotFound("generateEstimate", sid))
            /\ UNCHANGED <<pricing_matrix, multi_system_calls, quiz_questions, users>>
       ELSE IF Get(consultations[sid], "quiz_answers", <<>>) = <<>>
       THEN /\ Finish(p, HttpError("generateEstimate", sid, 400, "MissingAnswersError"))
            /\ UNCHANGED <<pricing_matrix, multi_system_calls, quiz_questions, users>>
       ELSE LET r == calculate_pricing_estimate(consultations[sid].quiz_answers,
                                                pricing_matrix)
                scaled == ~r.raised /\ ~Has(r.estimate, "error")
                          /\ r.estimate.systemCount >= 2
            IN  /\ scaled => multi_system_calls < MaxMultiSystemCalls
                /\ pricing_matrix' = r.matrix
                /\ multi_system_calls' = multi_system_calls + (IF scaled THEN 1 ELSE 0)
                /\ IF r.raised
                   THEN Finish(p, HttpError("generateEstimate", sid, 500, "InternalError"))
                   ELSE Goto(p, "estimate_write",
                             [op |-> "generateEstimate", session_id |-> sid,
                              estimate |-> r.estimate])

\* update_one $set pricing_estimate, status
generate_pricing_estimate_write(p) ==
    /\ pc[p] = "estimate_write"
    /\ LET l == local[p]
       IN  /\ consultations' =
                  [consultations EXCEPT ![l.session_id] =
                      SetFields(@, [pricing_estimate |-> l.estimate,
                                    status |-> "estimate_ready"])]
           /\ Finish(p, [op |-> "generateEstimate", session_id |-> l.session_id,
                         code |-> 200, estimate |-> l.estimate])
    /\ UNCHANGED <<hvac_categories, pricing_matrix, multi_system_calls, quiz_questions, users>>

-----------------------------------------------------------------------------
(* update_estimate_with_discount *)

\* find_one and the checks, lines 524-579
update_estimate_with_discount_read(p, sid) ==
    /\ Idle(p)
    /\ UNCHANGED <<consultations, hvac_categories, pricing_matrix, multi_system_calls,
                   quiz_questions, users>>
    /\ IF sid \notin DOMAIN consultations
       THEN Finish(p, SessionNotFound("applyDiscountOnce", sid))
       ELSE LET consultation == consultations[sid]
                total_discount == Get(consultation, "total_discount", 0)
                completed_categories == Get(consultation, "completed_categories", <<>>)
            IN  IF ~Has(consultation, "pricing_estimate")
                THEN Finish(p, NoEstimateError(sid))
                ELSE IF DiscountAlreadyApplied(consultation)
                THEN Finish(p, HttpError("applyDiscountOnce", sid, 400,
                                         "AlreadyAppliedError"))
                ELSE IF NoDiscount(total_discount)
                THEN Finish(p, [op |-> "applyDiscountOnce", session_id |-> sid,
                                code |-> 200, message |-> "No discount to apply",
                                original_estimate |-> consultation.pricing_estimate,
                                discounted_estimate |-> consultation.pricing_estimate,
                                total_discount |-> total_discount,
                                completed_categories |-> completed_categories])
                ELSE Goto(p, "discount_write",
                          [op |-> "applyDiscountOnce", session_id |-> sid,
                           original_estimate |-> consultation.pricing_estimate,
                           discounted_estimate |->
                               DiscountedEstimate(consultation.pricing_estimate,
                                                  total_discount, completed_categories),
                           total_discount |-> total_discount,
                           completed_categories |-> completed_categories])

\* update_one $set pricing_estimate, original_pricing_estimate
update_estimate_with_discount_write(p) ==
    /\ pc[p] = "discount_write"
    /\ LET l == local[p]
       IN  /\ consultations' =
                  [consultations EXCEPT ![l.session_id] =
                      SetFields(@, [pricing_estimate |-> l.discounted_estimate,
                                    original_pricing_estimate |-> l.original_estimate])]
           /\ Finish(p, [op |-> "applyDiscountOnce", session_id |-> l.session_id,
                         code |-> 200, message |-> "updated",
                         discounted_estimate |-> l.discounted_estimate,
                         total_discount |-> l.total_discount,
                         completed_categories |-> l.completed_categories])
    /\ UNCHANGED <<hvac_categories, pricing_matrix, multi_system_calls, quiz_questions, users>>

-----------------------------------------------------------------------------
(* update_hvac_category: one awaited upsert *)

update_hvac_category(category, category_data) ==
    /\ hvac_categories' = UpsertCategory(hvac_categories, category, category_data)
    /\ response' = EmptyDict
    /\ UNCHANGED <<consultations, quiz_questions, users, pricing_matrix, multi_system_calls,
                 overlaps, pc, local>>

-----------------------------------------------------------------------------
(* create_admin: find_one({}), insert_one, find_one by _id.  The users        *)
(* collection has a unique index on email.                                    *)

AdminError(code, error, email) ==
    [op |-> "createAdmin", code |-> code, error |-> error, email |-> email]

\* existing_user = find_one({}): any user at all
UserExists(existing_users) == existing_users # <<>>

\* find_one({}) and the check, lines 32-37; admin_user with the hash of the
\* password, lines 40-49
create_admin_read(p, admin_data) ==
    /\ Idle(p)
    /\ UNCHANGED <<consultations, hvac_categories, quiz_questions, users, pricing_matrix,
                   multi_system_calls>>
    /\ IF UserExists(users)
       THEN Finish(p, AdminError(400, "UserExistsError", admin_data.email))
       ELSE Goto(p, "admin_insert",
                 [op |-> "createAdmin",
                  admin_user |-> [email |-> admin_data.email,
                                  name |-> admin_data.name,
                                  is_admin |-> TRUE,
                                  password_hash |-> [hash_of |-> admin_data.password]]])

\* insert_one: refused by the unique index on email (an unhandled
\* DuplicateKeyError, HTTP 500), or the user is stored
create_admin_insert(p) ==
    /\ pc[p] = "admin_insert"
    /\ LET l == local[p]
       IN  IF \E i \in 1..Len(users) : users[i].email = l.admin_user.email
           THEN /\ Finish(p, AdminError(500, "DuplicateKeyError", l.admin_user.email))
                /\ UNCHANGED users
           ELSE /\ users' = Append(users, l.admin_user)
                /\ Goto(p, "admin_return", SetFields(l, [inserted_id |-> Len(users) + 1]))
    /\ UNCHANGED <<consultations, hvac_categories, quiz_questions, pricing_matrix,
                   multi_system_calls>>

\* find_one({"_id": inserted_id}) and the response, without the password hash
create_admin_return(p) ==
    /\ pc[p] = "admin_return"
    /\ LET created_admin == users[local[p].inserted_id]
       IN  Finish(p, [op |-> "createAdmin", code |-> 200,
                      email |-> created_admin.email,
                      admin |-> [email |-> created_admin.email,
                                 name |-> created_admin.name,
                                 is_admin |-> created_admin.is_admin]])
    /\ UNCHANGED <<consultations, hvac_categories, quiz_questions, users, pricing_matrix,
                   multi_system_calls>>

-----------------------------------------------------------------------------
(* The methods of the module-level pricing_service, called one at a time. *)

Returns(r) ==
    /\ response' = r
    /\ UNCHANGED <<consultations, hvac_categories, quiz_questions, users, overlaps, pc, local>>

determine_tonnage_call(square_footage) ==
    /\ Returns([op |-> "determineTonnage", square_footage |-> square_footage,
                tonnage |-> determine_tonnage(Chars(square_footage))])
    /\ UNCHANGED <<pricing_matrix, multi_system_calls>>

extract_system_count_call(system_count_answer) ==
    /\ Returns([op |-> "extractSystemCount",
                system_count_answer |-> system_count_answer,
                count |-> extract_system_count(system_count_answer).count])
    /\ UNCHANGED <<pricing_matrix, multi_system_calls>>

get_pricing_for_tonnage_call(tonnage) ==
    /\ Returns([op |-> "pricingForTonnage", tonnage |-> tonnage,
                pricing |-> pricing_matrix[get_pricing_for_tonnage(pricing_matrix, tonnage)]])
    /\ UNCHANGED <<pricing_matrix, multi_system_calls>>

calculate_estimate_call(square_footage, system_count) ==
    LET r == calculate_estimate(pricing_matrix, square_footage, system_count)
    IN  /\ system_count >= 2 => multi_system_calls < MaxMultiSystemCalls
        /\ pricing_matrix' = r.matrix
        /\ multi_system_calls' = multi_system_calls + (IF system_count >= 2 THEN 1 ELSE 0)
        /\ Returns([op |-> "calculateEstimate", square_footage |-> square_footage,
                    system_count |-> system_count, estimate |-> r.estimate])

-----------------------------------------------------------------------------
(* The inputs of the requests. *)

ValidAnswers(square_footage, system_count) ==
    << [id |-> "q6", answer |-> Str(square_footage)],
       [id |-> "q7", answer |-> Str(system_count)] >>

\* A body without the required system-count answer.
IncompleteAnswers == << [id |-> "q6", answer |-> Str("1,500 - 2,200 sq ft")] >>

\* A body for the catalog SurveyQuestions.
SurveyAnswers(square_footage, system_count, frustrations) ==
    << [id |-> "q6", answer |-> square_footage],
       [id |-> "q7", answer |-> system_count],
       [id |-> "q10", answer |-> frustrations] >>

\* The bodies a client sends for SurveyQuestions: four that pass the validation
\* (one of them with the system count as a JSON number, one with the optional
\* answer), and one for each way of failing it.
SurveyBodies ==
    LET mid == Str("1,500 - 2,200 sq ft")
        bills == List(<<"High Energy Bills">>)
    IN  { SurveyAnswers(mid, Str("1"), bills),
          SurveyAnswers(mid, Str("2"), bills),
          SurveyAnswers(mid, Num(2), bills),
          Append(SurveyAnswers(mid, Str("1"), bills),
                 [id |-> "q9", answer |-> Str("seasonal allergies")]),
          << [id |-> "q6", answer |-> mid], [id |-> "q10", answer |-> bills] >>,
          Append(SurveyAnswers(mid, Str("1"), bills),
                 [id |-> "q99", answer |-> Str("1")]),
          SurveyAnswers(mid, Str("seasonal allergies"), bills),
          SurveyAnswers(mid, Str("1"), Str("High Energy Bills")),
          SurveyAnswers(mid, Str("1"), List(<<"High Energy Bills", "Sunroof">>)),
          SurveyAnswers(Str("seasonal allergies"), Str("1"), bills),
          SurveyAnswers(List(<<"1,500 - 2,200 sq ft">>), Str("1"), bills) }

Upload(category, sub_category, content_type) ==
    [category |-> category, sub_category |-> sub_category, content_type |-> content_type]

\* The photo checklist, in the order the client walks it; the last entry pairs a
\* category with a sub-category of another one, which the handler accepts.
Checklist ==
    << Upload("outdoor_unit", "big_picture", "image/jpeg"),
       Upload("outdoor_unit", "data_plate", "image/jpeg"),
       Upload("power_hub", "panel_cover", "image/jpeg"),
       Upload("power_hub", "inside_panel", "image/jpeg"),
       Upload("command_center", "main_thermostat", "image/jpeg"),
       Upload("indoor_system", "indoor_unit", "image/jpeg"),
       Upload("energy_bill", "recent_bill", "image/jpeg"),
       Upload("energy_bill", "big_picture", "image/jpeg") >>

StoredImageCount(sid) ==
    IF sid \in DOMAIN consultations THEN Len(Get(consultations[sid], "images", <<>>)) ELSE 0

\* A client that walks the checklist: it sends the photo after those stored, or
\* sends the last stored one again.
ChecklistUploads(sid) ==
    {Checklist[k] : k \in {StoredImageCount(sid), StoredImageCount(sid) + 1}
                           \cap (1..Len(Checklist))}

\* A client that sends photos of the outdoor unit in any order, one of them under
\* a sub-category of another category, a file that is no image, and an unknown
\* category.
FreeUploads ==
    { Upload("outdoor_unit", "big_picture", "image/jpeg"),
      Upload("outdoor_unit", "data_plate", "image/jpeg"),
      Upload("outdoor_unit", "recent_bill", "image/jpeg"),
      Upload("outdoor_unit", "big_picture", "application/pdf"),
      Upload("garage", "big_picture", "image/jpeg") }

\* A client that sends the photos of three categories in any order.
AnyOrderUploads ==
    { Upload("outdoor_unit", "big_picture", "image/jpeg"),
      Upload("outdoor_unit", "data_plate", "image/jpeg"),
      Upload("power_hub", "panel_cover", "image/jpeg"),
      Upload("power_hub", "inside_panel", "image/jpeg"),
      Upload("command_center", "main_thermostat", "image/jpeg") }

\* The administrator's registry updates.
CategoryUpdates ==
    { [category |-> "outdoor_unit", data |-> [discount_amount |-> 12000]] }

-----------------------------------------------------------------------------
(* The system: Init, the steps of the handlers, the specifications. *)

InitCatalog(slots, questions) ==
    /\ consultations = EmptyDict
    /\ hvac_categories = SeededCategories
    /\ quiz_questions = questions
    /\ users = <<>>
    /\ pricing_matrix = InitialPricingMatrix
    /\ multi_system_calls = 0
    /\ overlaps = 0
    /\ pc = [p \in slots |-> "idle"]
    /\ local = [p \in slots |-> EmptyDict]
    /\ response = EmptyDict

\* The catalog as seed_quiz_questions leaves it.
InitSlots(slots) == InitCatalog(slots, Questions)

\* createSession and submitAnswers: a request arrives, a handler takes a later step.
SessionRequests(slots, session_ids, answers) ==
    \E p \in slots :
        \/ create_session(p, session_ids \ {"s0"})
        \/ \E sid \in session_ids, a \in answers :
              submit_consultation_answers_read(p, sid, a)
        \/ submit_consultation_answers_write(p)
        \/ submit_consultation_answers_return(p)

\* uploadImage
UploadRequests(slots, session_ids, checklist) ==
    \E p \in slots :
        \/ \E sid \in session_ids :
              \E u \in (IF checklist THEN ChecklistUploads(sid) ELSE FreeUploads) :
                  upload_hvac_image_read(p, sid, u.category, u.sub_category,
                                         u.content_type)
        \/ upload_hvac_image_push(p)
        \/ upload_hvac_image_registry(p)
        \/ upload_hvac_image_write(p)
        \/ upload_hvac_image_fail(p)

\* uploadImage, the photos taken from `uploads`
UploadRequestsOf(slots, session_ids, uploads) ==
    \E p \in slots :
        \/ \E sid \in session_ids, u \in uploads :
              upload_hvac_image_read(p, sid, u.category, u.sub_category, u.content_type)
        \/ upload_hvac_image_push(p)
        \/ upload_hvac_image_registry(p)
        \/ upload_hvac_image_write(p)
        \/ upload_hvac_image_fail(p)

\* generateEstimate and applyDiscountOnce
EstimateRequests(slots, session_ids) ==
    \E p \in slots :
        \/ \E sid \in session_ids : generate_pricing_estimate_read(p, sid)
        \/ generate_pricing_estimate_write(p)
        \/ \E sid \in session_ids : update_estimate_with_discount_read(p, sid)
        \/ update_estimate_with_discount_write(p)

\* generateEstimate
GenerateRequests(slots, session_ids) ==
    \E p \in slots :
        \/ \E sid \in session_ids : generate_pricing_estimate_read(p, sid)
        \/ generate_pricing_estimate_write(p)

\* getDetails and analyzeImages
ReadingRequests(slots, session_ids) ==
    \E p \in slots :
        \/ \E sid \in session_ids : get_consultation_details(p, sid)
        \/ \E sid \in session_ids : analyze_all_consultation_images_read(p, sid)
        \/ analyze_all_consultation_images_write(p)
        \/ analyze_all_consultation_images_fail(p)

Admin ==
    \E u \in CategoryUpdates : update_hvac_category(u.category, u.data)

SerialAnswers ==
    { ValidAnswers("1,500 - 2,200 sq ft", "1"), ValidAnswers("Over 3,000 sq ft", "2"),
      IncompleteAnswers }

ChecklistAnswers == { ValidAnswers("1,500 - 2,200 sq ft", "1"), IncompleteAnswers }

RaceAnswers == { ValidAnswers("1,500 - 2,200 sq ft", "1") }

SerialSlots == {1}
RaceSlots == {1, 2}

\* One request at a time, photos in any order.
Init == InitSlots(SerialSlots)
Next ==
    \/ SessionRequests(SerialSlots, {"s1", "s0"}, SerialAnswers)
    \/ UploadRequests(SerialSlots, {"s1", "s0"}, FALSE)
    \/ EstimateRequests(SerialSlots, {"s1", "s0"})
    \/ Admin
Spec == Init /\ [][Next]_vars

\* One request at a time, photos in checklist order.
NextChecklist ==
    \/ SessionRequests(SerialSlots, {"s1"}, ChecklistAnswers)
    \/ UploadRequests(SerialSlots, {"s1"}, TRUE)
    \/ EstimateRequests(SerialSlots, {"s1"})
    \/ Admin
SpecChecklist == Init /\ [][NextChecklist]_vars

\* Two requests in flight, photos in checklist order.
InitRace == InitSlots(RaceSlots)
NextRace ==
    \/ SessionRequests(RaceSlots, {"s1"}, RaceAnswers)
    \/ UploadRequests(RaceSlots, {"s1"}, TRUE)
    \/ EstimateRequests(RaceSlots, {"s1"})
    \/ Admin
SpecRace == InitRace /\ [][NextRace]_vars

\* One request at a time, every operation of the consultation core on a session.
NextCore ==
    \/ SessionRequests(SerialSlots, {"s1"}, RaceAnswers)
    \/ UploadRequests(SerialSlots, {"s1"}, FALSE)
    \/ EstimateRequests(SerialSlots, {"s1"})
    \/ ReadingRequests(SerialSlots, {"s1"})
SpecCore == Init /\ [][NextCore]_vars

\* One request at a time, the registry as seeded, photos of three categories in
\* any order.
NextOrder ==
    \/ SessionRequests(SerialSlots, {"s1"}, RaceAnswers)
    \/ UploadRequestsOf(SerialSlots, {"s1"}, AnyOrderUploads)
SpecOrder == Init /\ [][NextOrder]_vars

\* The square-footage texts handed to determine_tonnage: the four labels of the
\* quiz, the same in other letter cases, the forms without comma, and texts with
\* no label.
SquareFootageTexts ==
    { "Under 1,500 sq ft", "1,500 - 2,200 sq ft", "2,200 - 3,000 sq ft",
      "Over 3,000 sq ft", "under 1,500 sq ft", "UNDER 1,500 SQ FT", "Under 1500",
      "UNDER 1500 sqft", "1500-2200", "2200-3000", "over 3,000 sq ft", "OVER 3000",
      "around 1,500 - 2,200", "seasonal allergies", "" }

\* The answers handed to extract_system_count: texts, the empty text, None.
SystemCountAnswers ==
    { Str("1"), Str("2"), Str("3"), Str("4"), Str(""), None, Str("2 systems"),
      Str("five"), Str("2 (1 upstairs)"), Str("3 or 4"), Str("4+"),
      Str("seasonal allergies") }

\* The tonnages handed to get_pricing_for_tonnage, in tenths: those of the table,
\* and others.
Tonnages == {20, 25, 28, 30, 35, 38, 40, 45, 50, 60}

SystemCounts == {0, 1, 2, 3}

\* One request at a time, every operation of the consultation core: on a session
\* s1, on a session id s0 that has no consultation, and beside a second session
\* s2 whose client answers the quiz and reads.
SessionUploads ==
    { Upload("outdoor_unit", "big_picture", "image/jpeg"),
      Upload("outdoor_unit", "data_plate", "image/jpeg") }

NextSessions ==
    \/ SessionRequests(SerialSlots, {"s1", "s2", "s0"}, RaceAnswers)
    \/ UploadRequestsOf(SerialSlots, {"s1", "s0"}, SessionUploads)
    \/ EstimateRequests(SerialSlots, {"s1", "s0"})
    \/ ReadingRequests(SerialSlots, {"s1", "s2", "s0"})
SpecSessions == Init /\ [][NextSessions]_vars

\* The pricing service alone.
NextPricing ==
    \/ \E square_footage \in SquareFootageTexts : determine_tonnage_call(square_footage)
    \/ \E system_count_answer \in SystemCountAnswers :
          extract_system_count_call(system_count_answer)
    \/ \E tonnage \in Tonnages : get_pricing_for_tonnage_call(tonnage)
    \/ \E square_footage \in SquareFootageTexts, system_count \in SystemCounts :
          calculate_estimate_call(square_footage, system_count)
SpecPricing == Init /\ [][NextPricing]_vars

\* One request at a time, two sessions, the catalog SurveyQuestions: answers and
\* estimates.
InitSurvey == InitCatalog(SerialSlots, SurveyQuestions)
NextSurvey ==
    \/ SessionRequests(SerialSlots, {"s1", "s2"}, SurveyBodies)
    \/ GenerateRequests(SerialSlots, {"s1", "s2"})
SpecSurvey == InitSurvey /\ [][NextSurvey]_vars

\* The bodies of the create-admin requests.
AdminBodies ==
    [email : {"ann@example.com", "bob@example.com"}, name : {"Ann", "Bob"},
     password : {"secret"}]

\* createAdmin
AdminRequests(slots, bodies) ==
    \E p \in slots :
        \/ \E admin_data \in bodies : create_admin_read(p, admin_data)
        \/ create_admin_insert(p)
        \/ create_admin_return(p)

\* Two requests in flight: the admin is created while sessions are.
NextAdmin ==
    \/ AdminRequests(RaceSlots, AdminBodies)
    \/ \E p \in RaceSlots : create_session(p, {"s1"})
SpecAdmin == InitRace /\ [][NextAdmin]_vars

-----------------------------------------------------------------------------
(* What the properties below read off a state or a step. *)

Images(sid) == Get(consultations[sid], "images", <<>>)

PairStored(sid, category, sub_category) ==
    \E i \in 1..Len(Images(sid)) :
        /\ Images(sid)[i].category = category
        /\ Images(sid)[i].sub_category = sub_category

\* The images of the session beyond one per (category, sub_category) pair.
DuplicateCount(sid) ==
    Len(Images(sid))
    - Cardinality({<<Images(sid)[i].category, Images(sid)[i].sub_category>> :
                      i \in 1..Len(Images(sid))})

Quiescent == \A p \in DOMAIN pc : pc[p] = "idle"

\* The step is the arrival of a request for sid that passes the checks of its
\* handler and goes on to `step`.
Accepted(sid, step) ==
    \E p \in DOMAIN pc :
        /\ pc[p] = "idle"
        /\ pc'[p] = step
        /\ local'[p].session_id = sid

\* The step is the arrival of a request of `op` for sid that returns at once.
ReturnsAtOnce(sid, op) ==
    /\ pc' = pc
    /\ response' # EmptyDict
    /\ response'.op = op
    /\ response'.session_id = sid

\* The response of the latest step is an error `error` of operation `op`.
Failed(op, error) ==
    /\ response # EmptyDict
    /\ response.op = op
    /\ Has(response, "error")
    /\ response.error = error

NonNegative(n) == IF n > 0 THEN n ELSE 0

-----------------------------------------------------------------------------
(* C1: with one request at a time a session never holds more than 7 images,   *)
(* and an upload that arrives while 7 are stored is not accepted: it returns  *)
(* a 400 and the stored consultations stay as they were.                      *)
C1_ImageCap ==
    /\ [](\A sid \in DOMAIN consultations : StoredImageCount(sid) <= 7)
    /\ [][\A sid \in DOMAIN consultations :
            StoredImageCount(sid) = 7 =>
                /\ ~Accepted(sid, "upload_push")
                /\ ReturnsAtOnce(sid, "uploadImage") =>
                       /\ response'.code = 400
                       /\ consultations' = consultations]_vars

C1_Witness ==
    /\ Failed("uploadImage", "ImageLimitError")
    /\ StoredImageCount(response.session_id) = 7

(* C2: with one request at a time no two stored images of a session have the  *)
(* same (category, sub_category), and an upload whose pair is already stored  *)
(* is not accepted: it returns a 400 and nothing is appended.                 *)
C2_NoDuplicatePair ==
    /\ [](\A sid \in DOMAIN consultations : DuplicateCount(sid) = 0)
    /\ [][\A sid \in DOMAIN consultations :
            /\ \A p \in DOMAIN pc :
                  (pc[p] = "idle" /\ pc'[p] = "upload_push"
                   /\ local'[p].session_id = sid)
                  => ~PairStored(sid, local'[p].category, local'[p].sub_category)
            /\ (/\ ReturnsAtOnce(sid, "uploadImage")
                /\ PairStored(sid, response'.category, response'.sub_category))
               => /\ response'.code = 400
                  /\ consultations' = consultations]_vars

C2_Witness ==
    /\ Failed("uploadImage", "DuplicateCategoryError")
    /\ PairStored(response.session_id, response.category, response.sub_category)
    /\ DuplicateCount(response.session_id) = 0

(* C3: with interleaved uploads the cap and the uniqueness can be exceeded,    *)
(* each time by a request that arrived while another one was in flight: the   *)
(* images beyond 7 and the duplicates are at most as many as those requests.  *)
C3_OverrunNeedsOverlap ==
    \A sid \in DOMAIN consultations :
        /\ StoredImageCount(sid) <= 7 + overlaps
        /\ DuplicateCount(sid) <= overlaps

C3_Witness ==
    \E sid \in DOMAIN consultations :
        /\ StoredImageCount(sid) > 7
        /\ DuplicateCount(sid) > 0

(* C4: whenever no request is in flight, the stored total_discount and         *)
(* completed_categories of every session are those derived from its images    *)
(* and the current registry.                                                  *)
C4_DiscountRederivable ==
    Quiescent =>
        \A sid \in DOMAIN consultations :
            /\ Get(consultations[sid], "total_discount", 0)
                   = NewTotalDiscount(hvac_categories, Images(sid))
            /\ Get(consultations[sid], "completed_categories", <<>>)
                   = FullyCompletedCategories(hvac_categories, Images(sid))

(* C5: a successful upload, one request at a time, stores and returns the      *)
(* total_discount and completed_categories recomputed from the registry it    *)
(* read and all stored images, the new one included; with only one of         *)
(* outdoor_unit/big_picture, outdoor_unit/data_plate stored the total is 0,   *)
(* with both it is the discount_amount of outdoor_unit, which is completed.   *)
C5_UploadRecomputes ==
    [][\A p \in DOMAIN pc :
          (pc[p] = "upload_write" /\ response' # EmptyDict /\ response'.code = 200) =>
              LET sid == local[p].session_id
                  registry == local[p].hvac_categories
                  after == consultations'[sid]
                  images == Get(after, "images", <<>>)
                  pairs == {<<images[i].category, images[i].sub_category>> :
                               i \in 1..Len(images)}
                  completed == {response'.completed_categories[i] :
                                   i \in 1..Len(response'.completed_categories)}
              IN  /\ images # <<>>
                  /\ images[Len(images)].category = response'.category
                  /\ images[Len(images)].sub_category = response'.sub_category
                  /\ response'.total_discount = NewTotalDiscount(registry, images)
                  /\ response'.completed_categories
                         = FullyCompletedCategories(registry, images)
                  /\ after.total_discount = response'.total_discount
                  /\ after.completed_categories = response'.completed_categories
                  /\ pairs \in {{<<"outdoor_unit", "big_picture">>},
                                {<<"outdoor_unit", "data_plate">>}}
                         => response'.total_discount = 0
                  /\ pairs = {<<"outdoor_unit", "big_picture">>,
                              <<"outdoor_unit", "data_plate">>}
                         => /\ "outdoor_unit" \in completed
                            /\ \E i \in 1..Len(registry) :
                                  /\ registry[i].category = "outdoor_unit"
                                  /\ response'.total_discount
                                         = registry[i].discount_amount]_vars

C5_Witness ==
    /\ response # EmptyDict
    /\ response.op = "uploadImage"
    /\ response.code = 200
    /\ response.total_discount > 0
    /\ StoredImageCount(response.session_id) = 2
    /\ PairStored(response.session_id, "outdoor_unit", "big_picture")
    /\ PairStored(response.session_id, "outdoor_unit", "data_plate")

(* C6: a category is among the completed_categories of a session only if, for  *)
(* every sub-category the registry declares for it, an image with that        *)
(* (category, sub_category) is stored.                                        *)
C6_CompletedHasEveryPair ==
    \A sid \in DOMAIN consultations :
        LET completed == Get(consultations[sid], "completed_categories", <<>>)
        IN  \A k \in 1..Len(completed), i \in 1..Len(hvac_categories) :
                hvac_categories[i].category = completed[k] =>
                    \A j \in 1..Len(hvac_categories[i].sub_categories) :
                        PairStored(sid, completed[k], hvac_categories[i].sub_categories[j])

(* C7: with one request at a time, once original_pricing_estimate is stored    *)
(* no step changes it, and an applyDiscountOnce that arrives afterwards is    *)
(* not accepted: it returns the already-applied error and changes nothing.    *)
C7_OriginalFrozen ==
    [][\A sid \in DOMAIN consultations :
          Has(consultations[sid], "original_pricing_estimate") =>
              /\ Has(consultations'[sid], "original_pricing_estimate")
              /\ consultations'[sid].original_pricing_estimate
                     = consultations[sid].original_pricing_estimate
              /\ ~Accepted(sid, "discount_write")
              /\ ReturnsAtOnce(sid, "applyDiscountOnce") =>
                     /\ response'.code = 400
                     /\ response'.error = "AlreadyAppliedError"
                     /\ consultations' = consultations]_vars

C7_Witness ==
    /\ Failed("applyDiscountOnce", "AlreadyAppliedError")
    /\ Has(consultations[response.session_id], "original_pricing_estimate")

(* C8: even with overlapping requests, no request writes the discounted        *)
(* estimate and original_pricing_estimate of a session that already has an    *)
(* original_pricing_estimate.                                                 *)
C8_AppliedAtMostOnce ==
    [][\A p \in DOMAIN pc :
          (pc[p] = "discount_write" /\ pc'[p] = "idle") =>
              ~Has(consultations[local[p].session_id], "original_pricing_estimate")]_vars

C10_DiscountWrite ==
    /\ [](\A sid \in DOMAIN consultations :
            LET consultation == consultations[sid]
            IN  /\ Has(consultation, "original_pricing_estimate")
                       => Has(consultation, "pricing_estimate")
                /\ (/\ Has(consultation, "pricing_estimate")
                    /\ Has(consultation.pricing_estimate, "discount_applied"))
                       => Has(consultation, "original_pricing_estimate"))
    /\ [][\A sid \in DOMAIN consultations :
            LET before == consultations[sid]
                after == consultations'[sid]
            IN  (/\ ~Has(before, "original_pricing_estimate")
                 /\ Has(after, "original_pricing_estimate")) =>
                    LET d == before.total_discount
                        old == after.original_pricing_estimate
                        new == after.pricing_estimate
                    IN  /\ d > 0
                        /\ old = before.pricing_estimate
                        /\ response'.code = 200
                        /\ response'.discounted_estimate = new
                        /\ \A t \in {"good", "better", "best"} :
                              /\ new.estimates[t].minPrice
                                     = NonNegative(old.estimates[t].minPrice - d)
                              /\ new.estimates[t].maxPrice
                                     = NonNegative(old.estimates[t].maxPrice - d)
                              /\ new.estimates[t].label = old.estimates[t].label
                        /\ new.tonnage = old.tonnage
                        /\ new.systemCount = old.systemCount]_vars

\* A discount above the lowest price: the floor at 0 is in the stored estimate.
C10_Witness ==
    \E sid \in DOMAIN consultations :
        /\ Has(consultations[sid], "original_pricing_estimate")
        /\ consultations[sid].pricing_estimate.estimates.good.minPrice = 0
        /\ consultations[sid].original_pricing_estimate.estimates.good.minPrice > 0
        /\ response # EmptyDict
        /\ response.op = "applyDiscountOnce"
        /\ response.code = 200

(* C11: applyDiscountOnce on a session without a pricing_estimate is not      *)
(* accepted: it returns the no-estimate error (400) and no consultation       *)
(* changes, whatever the stored total_discount is.                            *)
C11_NoEstimate ==
    [][\A sid \in DOMAIN consultations :
          ~Has(consultations[sid], "pricing_estimate") =>
              /\ ~Accepted(sid, "discount_write")
              /\ ReturnsAtOnce(sid, "applyDiscountOnce") =>
                     /\ response'.code = 400
                     /\ Has(response', "error")
                     /\ response'.error = "NoEstimateError"
                     /\ consultations' = consultations]_vars

\* The error, returned to a session whose stored total_discount is not 0.
C11_Witness ==
    /\ Failed("applyDiscountOnce", "NoEstimateError")
    /\ ~Has(consultations[response.session_id], "pricing_estimate")
    /\ Get(consultations[response.session_id], "total_discount", 0) > 0

(* C12: whatever estimates were generated before, for any session, a         *)
(* generateEstimate that succeeds on a session whose answers are              *)
(* "1,500 - 2,200 sq ft" and "1" returns and stores tonnage 3.5, systemCount  *)
(* 1 and the prices 9500/11500, 13500/15500, 17000/19500.                     *)
C12_MidSingleEstimate ==
    [][\A p \in DOMAIN pc :
          (pc[p] = "estimate_write" /\ pc'[p] = "idle" /\ response'.code = 200) =>
              LET sid == local[p].session_id
                  answers == consultations[sid].quiz_answers
                  estimate == response'.estimate
              IN  (/\ LastAnswer(answers, "square_footage") = Str("1,500 - 2,200 sq ft")
                   /\ LastAnswer(answers, "system_count") = Str("1")) =>
                      /\ consultations'[sid].pricing_estimate = estimate
                      /\ estimate.tonnage = 35
                      /\ estimate.systemCount = 1
                      /\ estimate.estimates.good.minPrice = 9500
                      /\ estimate.estimates.good.maxPrice = 11500
                      /\ estimate.estimates.better.minPrice = 13500
                      /\ estimate.estimates.better.maxPrice = 15500
                      /\ estimate.estimates.best.minPrice = 17000
                      /\ estimate.estimates.best.maxPrice = 19500]_vars

(* C13: every estimate calculate_estimate returns has, for the row of its      *)
(* tonnage in the pricing table as written in the source, the prices          *)
(* floor(p * 1.85) when its systemCount is 2 or more and the prices p         *)
(* otherwise.                                                                 *)
C13_MultiplierOfTable ==
    [][\A p \in DOMAIN pc :
          (pc[p] = "idle" /\ pc'[p] = "estimate_write") =>
              LET estimate == local'[p].estimate
                  expected(price) == IF estimate.systemCount >= 2
                                     THEN (price * 185) \div 100 ELSE price
              IN  ~Has(estimate, "error") =>
                      \A i \in 1..Len(InitialPricingMatrix) :
                          InitialPricingMatrix[i].tonnage = estimate.tonnage =>
                              \A t \in {"good", "better", "best"} :
                                  /\ estimate.estimates[t].minPrice
                                         = expected(InitialPricingMatrix[i][t].minPrice)
                                  /\ estimate.estimates[t].maxPrice
                                         = expected(InitialPricingMatrix[i][t].maxPrice)]_vars

(* C14: generateEstimate on a session with non-empty quiz_answers never        *)
(* returns an error: it always goes on to store an estimate, and the step     *)
(* that stores it sets the status estimate_ready.                             *)
C14_NeverHardFails ==
    [][/\ \A sid \in DOMAIN consultations :
             Get(consultations[sid], "quiz_answers", <<>>) # <<>>
                 => ~ReturnsAtOnce(sid, "generateEstimate")
       /\ \A p \in DOMAIN pc :
             (pc[p] = "estimate_write" /\ pc'[p] = "idle") =>
                 /\ response'.code = 200
                 /\ consultations'[local[p].session_id].status = "estimate_ready"
                 /\ consultations'[local[p].session_id].pricing_estimate
                        = response'.estimate]_vars

(* C15: an upload that arrives for a consultation whose status is not         *)
(* answers_submitted, estimate_ready or images_uploaded is not accepted: it   *)
(* returns the premature-upload error (400) and no consultation changes.      *)
C15_UploadNeedsAnswers ==
    [][\A sid \in DOMAIN consultations :
          consultations[sid].status
              \notin {"answers_submitted", "estimate_ready", "images_uploaded"} =>
              /\ ~Accepted(sid, "upload_push")
              /\ ReturnsAtOnce(sid, "uploadImage") =>
                     /\ response'.code = 400
                     /\ response'.error = "PrematureUploadError"
                     /\ consultations' = consultations]_vars

C15_Witness ==
    /\ Failed("uploadImage", "PrematureUploadError")
    /\ consultations[response.session_id].status = "pending"
    /\ ~Has(consultations[response.session_id], "images")

C17_FlowEndsUploaded ==
    [][\A p \in DOMAIN pc :
          (/\ pc[p] = "upload_write"
           /\ response' # EmptyDict
           /\ response'.code = 200
           /\ local[p].consultation.status = "estimate_ready") =>
              consultations'[local[p].session_id].status = "images_uploaded"]_vars

(* C18: in every reachable state the status of every consultation is one of   *)
(* pending, answers_submitted, estimate_ready, images_uploaded.               *)
C18_NeverCompleted ==
    \A sid \in DOMAIN consultations :
        consultations[sid].status
            \in {"pending", "answers_submitted", "estimate_ready", "images_uploaded"}

\* A consultation every writing operation of the core has acted on.
C18_Witness ==
    \E sid \in DOMAIN consultations :
        /\ Has(consultations[sid], "original_pricing_estimate")
        /\ Has(consultations[sid], "image_analysis")
        /\ Get(consultations[sid], "total_discount", 0) > 0
        /\ consultations[sid].status = "estimate_ready"
        /\ response # EmptyDict
        /\ response.op = "getDetails"

\* The answer passes for a number: a JSON number, or one of the digit strings.
C19_IsNumber(answer) ==
    \/ answer.type = "number"
    \/ answer.type = "str" /\ answer.value \in {"1", "2", "3", "4"}

\* The body fails the validation of the catalog for one of the listed reasons.
C19_Invalid(body) ==
    \/ \E i \in 1..Len(quiz_questions) :
          /\ quiz_questions[i].is_required
          /\ \A k \in 1..Len(body) : body[k].id # quiz_questions[i].id
    \/ \E k \in 1..Len(body) :
          \/ \A i \in 1..Len(quiz_questions) : quiz_questions[i].id # body[k].id
          \/ \E i \in 1..Len(quiz_questions) :
                LET question == quiz_questions[i]
                    answer == body[k].answer
                IN  /\ question.id = body[k].id
                    /\ \/ question.input_type = "number" /\ ~C19_IsNumber(answer)
                       \/ /\ question.input_type = "checkbox"
                          /\ \/ answer.type # "list"
                             \/ \E j \in 1..Len(answer.value) :
                                   \A o \in 1..Len(question.options) :
                                       question.options[o] # answer.value[j]
                       \/ /\ question.input_type = "radio"
                          /\ \/ answer.type # "str"
                             \/ \A o \in 1..Len(question.options) :
                                   question.options[o] # answer.value

(* C19: a body that misses a required question, has an unknown question id,   *)
(* a number answer that is no number, a checkbox answer that is no list or    *)
(* has an element outside the options, or a radio answer that is no string of *)
(* the options fails the validation (a missing required question with the     *)
(* error naming the text of such a question); a submitAnswers that goes on to *)
(* its write carries a body that is none of these, and one that returns at    *)
(* once returns a 400 and leaves every consultation as it was.                *)
C19_ValidationBeforeWrite ==
    /\ [](\A body \in SurveyBodies :
            C19_Invalid(body) =>
                LET v == ValidateAnswers(body)
                IN  /\ ~v.ok
                    /\ (\E i \in 1..Len(quiz_questions) :
                           /\ quiz_questions[i].is_required
                           /\ \A k \in 1..Len(body) : body[k].id # quiz_questions[i].id)
                       => /\ v.error = "MissingAnswerError"
                          /\ \E i \in 1..Len(quiz_questions) :
                                /\ quiz_questions[i].is_required
                                /\ \A k \in 1..Len(body) :
                                      body[k].id # quiz_questions[i].id
                                /\ v.question = quiz_questions[i].question_text)
    /\ [][\A sid \in DOMAIN consultations :
            /\ ReturnsAtOnce(sid, "submitAnswers") =>
                   /\ response'.code = 400
                   /\ consultations' = consultations
            /\ \A p \in DOMAIN pc :
                  (pc[p] = "idle" /\ pc'[p] = "submit_write"
                   /\ local'[p].session_id = sid) =>
                      \E body \in SurveyBodies :
                          /\ ~C19_Invalid(body)
                          /\ Len(body) = Len(local'[p].formatted_answers)
                          /\ \A k \in 1..Len(body) :
                                /\ local'[p].formatted_answers[k].id = body[k].id
                                /\ local'[p].formatted_answers[k].answer
                                       = body[k].answer]_vars

\* A re-submission without the required system count, rejected with the text of
\* that question, on a consultation that keeps its answers and its estimate.
C19_Witness ==
    /\ Failed("submitAnswers", "MissingAnswerError")
    /\ response.question = "How many separate systems control your home's temperature?"
    /\ consultations[response.session_id].status = "estimate_ready"
    /\ Len(consultations[response.session_id].quiz_answers) = 4

(* C20: the write of a submitAnswers stores exactly the entries of its body,   *)
(* in place of all the answers stored before: one entry per key of the body,  *)
(* with the text, input type and order of the catalog question and the        *)
(* answer of the body.                                                        *)
C20_ResubmissionOverwrites ==
    [][\A p \in DOMAIN pc :
          (pc[p] = "submit_write" /\ pc'[p] = "submit_return") =>
              LET stored == consultations'[local[p].session_id].quiz_answers
                  sent == local[p].formatted_answers
              IN  /\ Len(stored) = Len(sent)
                  /\ \A k \in 1..Len(stored) :
                        /\ stored[k].id = sent[k].id
                        /\ stored[k].answer = sent[k].answer
                        /\ \E i \in 1..Len(quiz_questions) :
                              /\ quiz_questions[i].id = stored[k].id
                              /\ quiz_questions[i].question_text = stored[k].question_text
                              /\ quiz_questions[i].input_type = stored[k].input_type
                              /\ quiz_questions[i].order = stored[k].order]_vars

\* A second submission has replaced the one the stored estimate was computed
\* from (system count 2), and the optional answer of the first is gone.
C20_Witness ==
    /\ response # EmptyDict
    /\ response.op = "submitAnswers"
    /\ response.code = 200
    /\ LET consultation == consultations[response.session_id]
       IN  /\ Has(consultation, "pricing_estimate")
           /\ consultation.pricing_estimate.systemCount = 2
           /\ Len(consultation.quiz_answers) = 3
           /\ LastAnswer(consultation.quiz_answers, "system_count") = Str("1")

(* C21: a submitAnswers whose body is the one already stored, on a            *)
(* consultation still in answers_submitted, succeeds again (its write is      *)
(* followed by the return of the updated consultation) and leaves the         *)
(* consultation as it was.                                                    *)
C21_SubmitIdempotent ==
    [][\A p \in DOMAIN pc :
          (/\ pc[p] = "submit_write"
           /\ consultations[local[p].session_id].status = "answers_submitted"
           /\ consultations[local[p].session_id].quiz_answers
                  = local[p].formatted_answers)
          => /\ pc'[p] = "submit_return"
             /\ consultations' = consultations]_vars

(* C22: an analyzeImages request goes on to the analysis only when the status *)
(* is images_uploaded, estimate_ready or completed and an image is stored;    *)
(* otherwise it returns the status error or the no-images error and leaves    *)
(* every consultation as it was.  The step that ends the analysis changes     *)
(* nothing but image_analysis of its consultation, which it writes when it    *)
(* succeeds.                                                                  *)
C22_AnalysisFrame ==
    [][\A sid \in DOMAIN consultations :
          LET status == consultations[sid].status
              allowed == status \in {"images_uploaded", "estimate_ready", "completed"}
          IN  /\ Accepted(sid, "analyze_write") => allowed /\ Images(sid) # <<>>
              /\ ReturnsAtOnce(sid, "analyzeImages") =>
                    /\ consultations' = consultations
                    /\ Has(response', "error")
                    /\ IF ~allowed THEN response'.error = "StatusError"
                       ELSE Images(sid) = <<>> /\ response'.error = "NoImagesError"
              /\ \A p \in DOMAIN pc :
                    (pc[p] = "analyze_write" /\ local[p].session_id = sid) =>
                        /\ \A other \in DOMAIN consultations \ {sid} :
                              consultations'[other] = consultations[other]
                        /\ DOMAIN consultations' = DOMAIN consultations
                        /\ DOMAIN consultations'[sid] \ {"image_analysis"}
                               = DOMAIN consultations[sid] \ {"image_analysis"}
                        /\ \A key \in DOMAIN consultations[sid] \ {"image_analysis"} :
                              consultations'[sid][key] = consultations[sid][key]
                        /\ IF response'.code = 200
                           THEN /\ Has(consultations'[sid], "image_analysis")
                                /\ consultations'[sid].image_analysis = response'.results
                           ELSE consultations' = consultations]_vars

\* An analysis has succeeded on a consultation with two images, a discount and an
\* estimate, which it still has.
C22_Witness ==
    /\ response # EmptyDict
    /\ response.op = "analyzeImages"
    /\ response.code = 200
    /\ LET consultation == consultations[response.session_id]
       IN  /\ consultation.status = "estimate_ready"
           /\ Len(consultation.images) = 2
           /\ Get(consultation, "total_discount", 0) = 150
           /\ Has(consultation, "pricing_estimate")
           /\ consultation.image_analysis.total_images_analyzed = 1

(* C23: in the result of a successful analyzeImages every image whose         *)
(* download or OCR failed has an entry in individual_results with its         *)
(* failure reason, the entries are in stored order, and combined_text is the  *)
(* in-order sequence of the texts of exactly the images whose OCR succeeded.  *)
C23_FailuresRecorded ==
    [][\A p \in DOMAIN pc :
          (pc[p] = "analyze_write" /\ response'.code = 200) =>
              LET images == local[p].images
                  outcome == response'.outcome
                  results == response'.results.individual_results
                  read == SelectSeq([i \in 1..Len(images) |-> i],
                                    LAMBDA i : outcome[i] = "text")
              IN  /\ \A i \in 1..Len(images) :
                        outcome[i] # "text" =>
                            \E k \in 1..Len(results) :
                                /\ results[k].image_key = S3Key(images[i])
                                /\ ~results[k].analysis.success
                                /\ Has(results[k].analysis, "error")
                  /\ \A k, m \in 1..Len(results) :
                        k < m => results[k].image_key.image_number
                                     < results[m].image_key.image_number
                  /\ response'.results.combined_text
                         = [k \in 1..Len(read) |-> [text_of |-> S3Key(images[read[k]])]]]_vars

\* The (category, sub_category) pairs of the images stored for the session.
C24_Pairs(sid) ==
    {<<Images(sid)[i].category, Images(sid)[i].sub_category>> : i \in 1..Len(Images(sid))}

\* The categories of the registry that have at least as many of the pairs as they
\* declare sub-categories: a function of the set of pairs, not of their order.
C24_CompletedOf(pairs) ==
    {SeededCategories[i].category : i \in
        {j \in 1..Len(SeededCategories) :
            Cardinality({pr \in pairs : pr[1] = SeededCategories[j].category})
                >= Len(SeededCategories[j].sub_categories)}}

RECURSIVE C24_DiscountOf(_)
C24_DiscountOf(categories) ==
    IF categories = {} THEN 0
    ELSE LET c == CHOOSE c \in categories : TRUE
             amount == SeededCategories[CHOOSE i \in 1..Len(SeededCategories) :
                                            SeededCategories[i].category = c].discount_amount
         IN  amount + C24_DiscountOf(categories \ {c})

(* C24: with one request at a time and the registry as seeded, after every    *)
(* successful upload the stored total_discount and the set of stored          *)
(* completed_categories are those of the set of pairs uploaded so far,        *)
(* whatever the order in which they were uploaded.                            *)
C24_OrderIndependent ==
    [][\A p \in DOMAIN pc :
          (pc[p] = "upload_write" /\ response'.code = 200) =>
              LET sid == local[p].session_id
                  completed == consultations'[sid].completed_categories
                  pairs == {<<consultations'[sid].images[i].category,
                              consultations'[sid].images[i].sub_category>> :
                                i \in 1..Len(consultations'[sid].images)}
              IN  /\ Cardinality(pairs) = Len(consultations'[sid].images)
                  /\ {completed[i] : i \in 1..Len(completed)} = C24_CompletedOf(pairs)
                  /\ consultations'[sid].total_discount
                         = C24_DiscountOf(C24_CompletedOf(pairs))]_vars

\* The five photos have been uploaded with the data plate of the outdoor unit
\* before its big picture and the thermostat first: 150 + 50 + 25.
C24_Witness ==
    /\ response # EmptyDict
    /\ response.op = "uploadImage"
    /\ response.code = 200
    /\ LET images == Images(response.session_id)
       IN  /\ Len(images) = 5
           /\ images[1].sub_category = "main_thermostat"
           /\ images[2].sub_category = "data_plate"
           /\ images[5].sub_category = "big_picture"
    /\ consultations[response.session_id].total_discount = 225
    /\ C24_Pairs(response.session_id) =
           {<<u.category, u.sub_category>> : u \in AnyOrderUploads}

\* The text contains the label (given in lower case), in any letter case.
C25_HasLabel(square_footage, label) == Contains(Lower(Chars(square_footage)), label)

C25_Under == <<"u","n","d","e","r"," ","1",",","5","0","0">>
C25_Low == <<"1",",","5","0","0"," ","-"," ","2",",","2","0","0">>
C25_High == <<"2",",","2","0","0"," ","-"," ","3",",","0","0","0">>
C25_Over == <<"o","v","e","r"," ","3",",","0","0","0">>

(* C25: determineTonnage returns 2.5, 3.5, 4.0 or 5.0 for a text that has the *)
(* label "Under 1,500", "1,500 - 2,200", "2,200 - 3,000" or "Over 3,000"      *)
(* in any letter case, 3.5 for a text with none of the four labels, and no    *)
(* other value.                                                               *)
C25_TonnageAnyCase ==
    (response # EmptyDict /\ response.op = "determineTonnage") =>
        LET text == response.square_footage
        IN  /\ response.tonnage \in {25, 35, 40, 50}
            /\ C25_HasLabel(text, C25_Under) => response.tonnage = 25
            /\ C25_HasLabel(text, C25_Low) => response.tonnage = 35
            /\ C25_HasLabel(text, C25_High) => response.tonnage = 40
            /\ C25_HasLabel(text, C25_Over) => response.tonnage = 50
            /\ (\A label \in {C25_Under, C25_Low, C25_High, C25_Over} :
                    ~C25_HasLabel(text, label))
                  => response.tonnage = 35

(* C26: extractSystemCount returns 1 for a text with the character "1",       *)
(* otherwise 2, 3 or 4 for a text with "2", "3" or "4" (in that priority),    *)
(* and 1 for a text with none of them, the empty text and an absent answer.   *)
C26_SystemCountPriority ==
    (response # EmptyDict /\ response.op = "extractSystemCount") =>
        LET answer == response.system_count_answer
            text == IF answer.type = "str" THEN Chars(answer.value) ELSE <<>>
            has(digit) == \E i \in 1..Len(text) : text[i] = digit
        IN  response.count = IF has("1") THEN 1
                             ELSE IF has("2") THEN 2
                             ELSE IF has("3") THEN 3
                             ELSE IF has("4") THEN 4
                             ELSE 1

\* The count of a text with both "2" and "1", the 2 first: 1.
C26_Witness ==
    /\ response # EmptyDict
    /\ response.op = "extractSystemCount"
    /\ response.system_count_answer = Str("2 (1 upstairs)")
    /\ response.count = 1

(* C27: every consultation is stored under its own session id; a step that   *)
(* adds a consultation is a createSession that adds exactly one, under an id  *)
(* no consultation had, in status pending with empty quiz_answers, no images  *)
(* and no estimate, and returns it; every createSession does so, and no other *)
(* step adds or removes a consultation.                                       *)
C27_OnePerSession ==
    /\ [](\A sid \in DOMAIN consultations : consultations[sid].session_id = sid)
    /\ [][LET added == DOMAIN consultations' \ DOMAIN consultations
              created == response' # EmptyDict /\ response'.op = "createSession"
          IN  /\ DOMAIN consultations \subseteq DOMAIN consultations'
              /\ created <=> added # {}
              /\ created =>
                    /\ added = {response'.session_id}
                    /\ response'.code = 200
                    /\ \A sid \in DOMAIN consultations :
                          consultations'[sid] = consultations[sid]
                    /\ LET consultation == consultations'[response'.session_id]
                       IN  /\ consultation.status = "pending"
                           /\ consultation.quiz_answers = <<>>
                           /\ ~Has(consultation, "images")
                           /\ ~Has(consultation, "pricing_estimate")]_vars

\* A second session has been created beside one that has answers, an image and
\* an estimate.
C27_Witness ==
    /\ response # EmptyDict
    /\ response.op = "createSession"
    /\ DOMAIN consultations = {"s1", "s2"}
    /\ \E sid \in DOMAIN consultations :
          /\ sid # response.session_id
          /\ consultations[sid].status = "estimate_ready"
          /\ Len(Images(sid)) = 1

(* C28: a submitAnswers, uploadImage, getDetails, generateEstimate,           *)
(* applyDiscountOnce or analyzeImages request for a session id that has no    *)
(* consultation returns the not-found error at once and leaves the stored     *)
(* consultations as they were; no handler goes on to a later step for such    *)
(* an id.                                                                     *)
C28_UnknownSession ==
    [][/\ (/\ pc' = pc
           /\ response' # EmptyDict
           /\ response'.op \in {"submitAnswers", "uploadImage", "getDetails",
                                "generateEstimate", "applyDiscountOnce", "analyzeImages"}
           /\ response'.session_id \notin DOMAIN consultations)
          => /\ response'.code = 404
             /\ response'.error = "NotFoundError"
             /\ consultations' = consultations
       /\ \A p \in DOMAIN pc :
             (pc[p] = "idle" /\ pc'[p] # "idle") =>
                 local'[p].session_id \in DOMAIN consultations]_vars

\* An analysis asked for a session id without consultation, while another
\* session has both photos and its discount.
C28_Witness ==
    /\ Failed("analyzeImages", "NotFoundError")
    /\ response.session_id \notin DOMAIN consultations
    /\ "s1" \in DOMAIN consultations
    /\ Len(Images("s1")) = 2
    /\ Get(consultations["s1"], "total_discount", 0) = 150

(* C29: in every step the images list of every consultation keeps the list it *)
(* had as a prefix: a step adds images at the end or leaves the list alone,   *)
(* and so the list of any earlier state is a prefix of that of a later one.   *)
C29_ImagesAppendOnly ==
    [][\A sid \in DOMAIN consultations :
          /\ sid \in DOMAIN consultations'
          /\ Len(Images(sid)) <= Len(Get(consultations'[sid], "images", <<>>))
          /\ \A i \in 1..Len(Images(sid)) :
                consultations'[sid].images[i] = Images(sid)[i]]_vars

\* Three photos are stored, in the order of their upload, and the answers have
\* been submitted again after them.
C29_Witness ==
    /\ response # EmptyDict
    /\ response.op = "submitAnswers"
    /\ response.code = 200
    /\ LET images == Images(response.session_id)
       IN  /\ Len(images) = 3
           /\ \A i \in 1..3 : images[i].image_number = i
           /\ images[1].sub_category = "recent_bill"

\* The categories of the registry with at least as many images as they declare
\* sub-categories.
C30_CompletedOf(registry, images) ==
    {registry[j].category : j \in
        {i \in 1..Len(registry) :
            Cardinality({k \in 1..Len(images) : images[k].category = registry[i].category})
                >= Len(registry[i].sub_categories)}}

RECURSIVE C30_SumOver(_, _)
C30_SumOver(registry, indices) ==
    IF indices = {} THEN 0
    ELSE LET i == CHOOSE i \in indices : TRUE
         IN  registry[i].discount_amount + C30_SumOver(registry, indices \ {i})

\* The total discount derived from an images list.
C30_TotalOf(registry, images) ==
    C30_SumOver(registry,
                {i \in 1..Len(registry) :
                    registry[i].category \in C30_CompletedOf(registry, images)})

(* C30: when a successful upload leaves a stored total_discount or stored     *)
(* completed_categories other than those derived from the images list it      *)
(* leaves (and the registry it read), a request has arrived while another     *)
(* one was in flight: the divergence is that of overlapping uploads, and it   *)
(* does happen (witness).                                                     *)
C30_DivergenceNeedsOverlap ==
    [][\A p \in DOMAIN pc :
          (/\ pc[p] = "upload_write"
           /\ pc'[p] = "idle"
           /\ response' # EmptyDict
           /\ response'.code = 200) =>
              LET after == consultations'[local[p].session_id]
                  registry == local[p].hvac_categories
                  completed == after.completed_categories
              IN  (\/ after.total_discount # C30_TotalOf(registry, after.images)
                   \/ {completed[i] : i \in 1..Len(completed)}
                          # C30_CompletedOf(registry, after.images))
                  => overlaps' > 0]_vars

\* Both photos of the outdoor unit are stored after two overlapping uploads, no
\* request is in flight, and the upload that returned last has stored the values
\* of its own snapshot: no completed category and no discount, where the images
\* list gives outdoor_unit and 150.
C30_Witness ==
    /\ Quiescent
    /\ overlaps > 0
    /\ hvac_categories = SeededCategories
    /\ response # EmptyDict
    /\ response.op = "uploadImage"
    /\ response.code = 200
    /\ response.total_images = 1
    /\ LET consultation == consultations[response.session_id]
       IN  /\ Len(consultation.images) = 2
           /\ PairStored(response.session_id, "outdoor_unit", "big_picture")
           /\ PairStored(response.session_id, "outdoor_unit", "data_plate")
           /\ consultation.total_discount = 0
           /\ consultation.completed_categories = <<>>
           /\ C30_TotalOf(hvac_categories, consultation.images) = 150
           /\ C30_CompletedOf(hvac_categories, consultation.images) = {"outdoor_unit"}

(* C31: a generateEstimate request returns the missing-answers error at once, *)
(* changing nothing, exactly when quiz_answers is empty (always so in status  *)
(* pending); otherwise it goes on, whatever the status, to a write that       *)
(* stores the estimate it returns as pricing_estimate, sets the status to     *)
(* estimate_ready and leaves every other field as it was.                     *)
C31_GenerateFromAnyStatus ==
    [][\A sid \in DOMAIN consultations :
          /\ ReturnsAtOnce(sid, "generateEstimate") =>
                /\ consultations[sid].quiz_answers = <<>>
                /\ response'.code = 400
                /\ response'.error = "MissingAnswersError"
                /\ consultations' = consultations
          /\ Accepted(sid, "estimate_write") =>
                /\ consultations[sid].quiz_answers # <<>>
                /\ consultations[sid].status # "pending"
          /\ \A p \in DOMAIN pc :
                (pc[p] = "estimate_write" /\ local[p].session_id = sid) =>
                    /\ response'.code = 200
                    /\ consultations'[sid].pricing_estimate = response'.estimate
                    /\ consultations'[sid].status = "estimate_ready"
                    /\ DOMAIN consultations'[sid]
                           = DOMAIN consultations[sid] \cup {"pricing_estimate"}
                    /\ \A key \in DOMAIN consultations[sid]
                                      \ {"pricing_estimate", "status"} :
                          consultations'[sid][key] = consultations[sid][key]]_vars

(* C32: a submitAnswers request with a valid body is accepted in every status *)
(* and its write succeeds, sets the status to answers_submitted and leaves    *)
(* images, total_discount, completed_categories, pricing_estimate and         *)
(* original_pricing_estimate as they were.                                    *)
C32_SubmitFromAnyStatus ==
    [][\A sid \in DOMAIN consultations :
          /\ ReturnsAtOnce(sid, "submitAnswers") =>
                response'.error \in {"MissingAnswerError", "InvalidQuestionError",
                                     "InvalidAnswerError", "InvalidOptionError"}
          /\ \A p \in DOMAIN pc :
                (pc[p] = "submit_write" /\ local[p].session_id = sid) =>
                    /\ pc'[p] = "submit_return"
                    /\ consultations'[sid].status = "answers_submitted"
                    /\ DOMAIN consultations'[sid] = DOMAIN consultations[sid]
                    /\ \A key \in DOMAIN consultations[sid] \ {"quiz_answers", "status"} :
                          consultations'[sid][key] = consultations[sid][key]]_vars


\* C33: pricingForTonnage returns the row whose tonnage equals the requested one
\* when there is one; otherwise the row of least absolute difference, and of
\* several such rows the earliest of the table (3.0 gives the 2.5 row, 4.5 the
\* 4.0 row).
C33_NearestRow ==
    response # EmptyDict /\ response.op = "pricingForTonnage" =>
        \E i \in 1..Len(pricing_matrix) :
            /\ response.pricing = pricing_matrix[i]
            /\ LET d == AbsDiff(pricing_matrix[i].tonnage, response.tonnage)
               IN  /\ (\E j \in 1..Len(pricing_matrix) :
                          pricing_matrix[j].tonnage = response.tonnage) => d = 0
                   /\ \A j \in 1..Len(pricing_matrix) :
                          AbsDiff(pricing_matrix[j].tonnage, response.tonnage) >= d
                   /\ \A j \in 1..(i - 1) :
                          AbsDiff(pricing_matrix[j].tonnage, response.tonnage) > d
            /\ (response.tonnage = 30 => response.pricing.tonnage = 25)
            /\ (response.tonnage = 45 => response.pricing.tonnage = 40)

C33_TieSeen ==
    /\ response # EmptyDict
    /\ response.op = "pricingForTonnage"
    /\ response.tonnage = 30
    /\ response.pricing.tonnage = 25


(* C34: the requests of one session never affect another.  No step taken for  *)
(* a session changes the stored document of a different one, and what a       *)
(* session is returned does not depend on what other sessions did before: the *)
(* first estimate generated for a session (none is stored for it yet) is the  *)
(* one its own answers give against the pricing table as it was initialised.  *)
C34_SessionsIsolated ==
    [][\A sid \in DOMAIN consultations :
          /\ \A p \in DOMAIN pc :
                (pc[p] # "idle" /\ local[p].session_id # sid) =>
                    consultations'[sid] = consultations[sid]
          /\ \A other \in DOMAIN consultations \ {sid} :
                (Accepted(other, "estimate_write") \/ Accepted(other, "submit_write")
                    \/ ReturnsAtOnce(other, "generateEstimate")
                    \/ ReturnsAtOnce(other, "submitAnswers")) =>
                    consultations'[sid] = consultations[sid]
          /\ (Accepted(sid, "estimate_write")
                /\ ~Has(consultations[sid], "pricing_estimate")) =>
                \A p \in DOMAIN pc :
                    pc'[p] = "estimate_write" =>
                        local'[p].estimate =
                            calculate_pricing_estimate(consultations[sid].quiz_answers,
                                                       InitialPricingMatrix).estimate]_vars


(* C35: however the requests of a session interleave, a discount is never     *)
(* subtracted from an estimate that is already discounted.  Whenever the      *)
(* stored pricing_estimate carries discount_applied, original_pricing_estimate *)
(* is set, is itself undiscounted, and every price of pricing_estimate is the *)
(* price of the original less discount_applied once (not below 0); and every  *)
(* estimate an applyDiscountOnce request is about to write was computed from  *)
(* an undiscounted estimate.                                                  *)
C35_TierOnce(discounted, original, d) ==
    /\ discounted.minPrice = NonNegative(original.minPrice - d)
    /\ discounted.maxPrice = NonNegative(original.maxPrice - d)

C35_Once(discounted, original) ==
    /\ ~Has(original, "discount_applied")
    /\ \A tier \in {"good", "better", "best"} :
          C35_TierOnce(discounted.estimates[tier], original.estimates[tier],
                       discounted.discount_applied)

C35_NoDoubleDiscount ==
    /\ \A sid \in DOMAIN consultations :
          LET consultation == consultations[sid]
          IN  (Has(consultation, "pricing_estimate")
                 /\ Has(consultation.pricing_estimate, "discount_applied")) =>
                  /\ Has(consultation, "original_pricing_estimate")
                  /\ C35_Once(consultation.pricing_estimate,
                              consultation.original_pricing_estimate)
    /\ \A p \in DOMAIN pc :
          pc[p] = "discount_write" =>
              /\ local[p].discounted_estimate.discount_applied = local[p].total_discount
              /\ C35_Once(local[p].discounted_estimate, local[p].original_estimate)

\* A second applyDiscountOnce request, which read the consultation before the
\* first one wrote, is about to write over the discounted estimate.
C35_OverlappingDiscounts ==
    \E p \in DOMAIN pc :
        /\ pc[p] = "discount_write"
        /\ Has(consultations[local[p].session_id], "original_pricing_estimate")
        /\ Has(consultations[local[p].session_id].pricing_estimate, "discount_applied")


(* C36: with requests interleaved, an uploadImage never overwrites the status *)
(* estimate_ready: whenever the write of an upload (the $set of status with   *)
(* the $push of the image) is applied to a consultation whose status is       *)
(* estimate_ready, the status is estimate_ready afterwards.                   *)
C36_UploadKeepsEstimateReady ==
    [][\A p \in DOMAIN pc :
          (pc[p] = "upload_push" /\ pc'[p] = "upload_registry"
             /\ consultations[local[p].session_id].status = "estimate_ready") =>
              consultations'[local[p].session_id].status = "estimate_ready"]_vars


(* C37: in every reachable state, however the requests interleave, the status *)
(* agrees with what is stored: a pending consultation has no answers, no      *)
(* images and no pricing_estimate; one that is estimate_ready has a           *)
(* pricing_estimate; one that is images_uploaded has at least one image.      *)
C37_StatusConsistent ==
    \A sid \in DOMAIN consultations :
        LET consultation == consultations[sid]
        IN  /\ consultation.status = "pending" =>
                  /\ Get(consultation, "quiz_answers", <<>>) = <<>>
                  /\ Images(sid) = <<>>
                  /\ ~Has(consultation, "pricing_estimate")
            /\ consultation.status = "estimate_ready" =>
                  Has(consultation, "pricing_estimate")
            /\ consultation.status = "images_uploaded" => Len(Images(sid)) >= 1

\* An upload that read the consultation before the estimate was generated is
\* still in flight when the status has become estimate_ready.
C37_EstimateReadyDuringUpload ==
    \E p \in DOMAIN pc :
        /\ pc[p] = "upload_push"
        /\ local[p].consultation.status = "answers_submitted"
        /\ consultations[local[p].session_id].status = "estimate_ready"
        /\ Has(consultations[local[p].session_id], "pricing_estimate")


(* C38: no step of an uploadImage request changes quiz_answers,               *)
(* pricing_estimate or original_pricing_estimate.  An image uploaded after    *)
(* the discount was applied changes total_discount and completed_categories   *)
(* to the values the upload returns and leaves the discounted                 *)
(* pricing_estimate, with its discount_applied, as it was.                    *)
C38_Kept == {"quiz_answers", "pricing_estimate", "original_pricing_estimate"}

C38_UploadLeavesEstimate ==
    [][\A sid \in DOMAIN consultations :
          /\ (Accepted(sid, "upload_push") \/ ReturnsAtOnce(sid, "uploadImage")) =>
                consultations' = consultations
          /\ \A p \in DOMAIN pc :
                (pc[p] \in {"upload_push", "upload_registry", "upload_write"}
                   /\ pc'[p] # pc[p] /\ local[p].session_id = sid) =>
                    /\ \A key \in C38_Kept :
                          /\ Has(consultations'[sid], key) = Has(consultations[sid], key)
                          /\ Has(consultations[sid], key) =>
                                consultations'[sid][key] = consultations[sid][key]
                    /\ (pc[p] = "upload_write" /\ response' # EmptyDict
                          /\ response'.code = 200) =>
                          /\ consultations'[sid].total_discount = response'.total_discount
                          /\ consultations'[sid].completed_categories
                                 = response'.completed_categories]_vars

\* An upload has succeeded after the discount was applied, and the discount of
\* the consultation is no longer the one the estimate was reduced by.
C38_UploadAfterDiscount ==
    /\ response # EmptyDict
    /\ response.op = "uploadImage"
    /\ response.code = 200
    /\ Has(consultations[response.session_id], "original_pricing_estimate")
    /\ Has(consultations[response.session_id].pricing_estimate, "discount_applied")
    /\ consultations[response.session_id].total_discount
           # consultations[response.session_id].pricing_estimate.discount_applied


(* C39: when the object-storage upload of an uploadImage request fails, the   *)
(* request returns the dependency error with code 500 and the stored          *)
(* consultations are as they were before the failure.                         *)
C39_StorageFailureChangesNothing ==
    [][\A p \in DOMAIN pc :
          (pc[p] = "upload_push" /\ pc'[p] = "idle") =>
              /\ response'.op = "uploadImage"
              /\ response'.session_id = local[p].session_id
              /\ response'.code = 500
              /\ response'.error = "DependencyError"
              /\ consultations' = consultations]_vars

\* The storage has failed for an upload to a consultation that already holds an
\* image.
C39_StorageFailed ==
    /\ Failed("uploadImage", "DependencyError")
    /\ response.failed_at = "upload_push"
    /\ Len(Images(response.session_id)) >= 1


(* C40: there is only ever one user, the admin.  After any create-admin       *)
(* requests, overlapping ones with different emails included, users holds at  *)
(* most one user, that user has is_admin true, and every create-admin request *)
(* that does not create it fails with the user-already-exists error.          *)
C40_SingleAdmin ==
    /\ Len(users) <= 1
    /\ \A i \in 1..Len(users) : users[i].is_admin
    /\ (response # EmptyDict /\ response.op = "createAdmin" /\ response.code # 200) =>
           /\ response.code = 400
           /\ response.error = "UserExistsError"

=============================================================================
